---- MODULE Spec2Model ----
(***************************************************************************)
(* A model of the OpenSearch storage engine of acro-opensearch-store-node  *)
(* (src/src/engine.ts, src/src/utils.ts, src/src/action.ts,                *)
(* src/src/mapping.ts).                                                    *)
(*                                                                         *)
(* The module holds several specifications over one set of variables:      *)
(*   SpecRouting  the index router (getIndexName, getIndexNameRange)       *)
(*   SpecCodec    the document codec (serialize, deserialize)              *)
(*   SpecQuery    the filter compiler (buildFindManyQuery)                 *)
(*   Spec         the engine life cycle: constructor, template and mapping *)
(*                reconciliation, create / createMany / findMany against   *)
(*                the external search client                               *)
(* Each specification drives its own variables and leaves the others at    *)
(* their initial value.                                                    *)
(***************************************************************************)
EXTENDS Integers, Sequences, FiniteSets, TLC

VARIABLES
    rt,     \* index router: the last routing call, its arguments and result
    cd,     \* document codec: the last codec call, its argument and result
    qr,     \* filter compiler: the last buildFindManyQuery call and result
    eng,    \* the engine instance: configuration and construction state
    tpl,    \* upsertIndexTemplates task and the template held by the cluster
    mp,     \* updateIndexMappings task and its per-index updateIndexMapping tasks
    fc      \* the facade call in progress, its client call and its outcome

vars == <<rt, cd, qr, eng, tpl, mp, fc>>

(***************************************************************************)
(* Generic helpers                                                         *)
(***************************************************************************)

\* An optional string (a JS `string | undefined`).
None == [some |-> FALSE, s |-> ""]
Some(x) == [some |-> TRUE, s |-> x]

\* JS truthiness of an optional string: undefined and "" are falsy.
Truthy(o) == o.some /\ o.s # ""

RECURSIVE Concat(_)
\* The string made of the pieces of a sequence of strings, in order.
Concat(seq) == IF seq = <<>> THEN "" ELSE Head(seq) \o Concat(Tail(seq))

RECURSIVE Join(_, _)
\* Array.prototype.join(sep) for an array of strings.
Join(seq, sep) ==
    IF seq = <<>> THEN ""
    ELSE IF Len(seq) = 1 THEN seq[1]
    ELSE seq[1] \o sep \o Join(Tail(seq), sep)

Range(seq) == {seq[i] : i \in DOMAIN seq}

Min2(a, b) == IF a <= b THEN a ELSE b

(***************************************************************************)
(* Calendar (proleptic Gregorian, UTC)                                     *)
(***************************************************************************)

IsLeapYear(y) == (y % 4 = 0 /\ y % 100 # 0) \/ y % 400 = 0

DaysInMonth(y, m) ==
    IF m = 2 THEN (IF IsLeapYear(y) THEN 29 ELSE 28)
    ELSE IF m \in {4, 6, 9, 11} THEN 30 ELSE 31

\* Days since 1970-01-01 of the civil date y-m-d.
DaysFromCivil(y, m, d) ==
    LET yy  == IF m <= 2 THEN y - 1 ELSE y
        era == yy \div 400
        yoe == yy - era * 400
        mp1 == IF m > 2 THEN m - 3 ELSE m + 9
        doy == (153 * mp1 + 2) \div 5 + d - 1
        doe == yoe * 365 + yoe \div 4 - yoe \div 100 + doy
    IN  era * 146097 + doe - 719468

\* A UTC instant, to the hour: [y, m, d, h].  Ord orders instants.
Ord(i) == DaysFromCivil(i.y, i.m, i.d) * 24 + i.h

PrevDay(i) ==
    IF i.d > 1 THEN [i EXCEPT !.d = i.d - 1]
    ELSE IF i.m > 1 THEN [i EXCEPT !.m = i.m - 1, !.d = DaysInMonth(i.y, i.m - 1)]
    ELSE [i EXCEPT !.y = i.y - 1, !.m = 12, !.d = 31]

NextDay(i) ==
    IF i.d < DaysInMonth(i.y, i.m) THEN [i EXCEPT !.d = i.d + 1]
    ELSE IF i.m < 12 THEN [i EXCEPT !.m = i.m + 1, !.d = 1]
    ELSE [i EXCEPT !.y = i.y + 1, !.m = 1, !.d = 1]

\* An ISO-8601 string with an explicit UTC offset, by its fields:
\* [given, y, m, d, h, off] is "y-m-dTh:00:00.000+off:00"; off = 0 is "Z".
\* given = FALSE is the absent (undefined) string.
NoIso == [given |-> FALSE, y |-> 0, m |-> 0, d |-> 0, h |-> 0, off |-> 0]

\* The UTC instant an ISO string names: the wall clock minus the offset.
ToUtc(iso) ==
    LET base == [y |-> iso.y, m |-> iso.m, d |-> iso.d, h |-> 0]
        hh   == iso.h - iso.off
    IN  IF hh < 0 THEN [PrevDay(base) EXCEPT !.h = hh + 24]
        ELSE IF hh >= 24 THEN [NextDay(base) EXCEPT !.h = hh - 24]
        ELSE [base EXCEPT !.h = hh]

Pad2(n) == IF n < 10 THEN "0" \o ToString(n) ELSE ToString(n)

Pad4(n) ==
    IF n < 10 THEN "000" \o ToString(n)
    ELSE IF n < 100 THEN "00" \o ToString(n)
    ELSE IF n < 1000 THEN "0" \o ToString(n)
    ELSE ToString(n)

\* luxon DateTime#toISO() of a UTC instant.
ToISO(i) ==
    Pad4(i.y) \o "-" \o Pad2(i.m) \o "-" \o Pad2(i.d) \o "T" \o Pad2(i.h)
        \o ":00:00.000Z"

\* luxon DateTime#plus({months: n}) / #minus({months: -n}) in the UTC zone:
\* the month moves, the day is clamped to the length of the target month,
\* the time of day is kept.
PlusMonths(i, n) ==
    LET idx == i.y * 12 + (i.m - 1) + n
        ny  == idx \div 12
        nm  == (idx % 12) + 1
    IN  [y |-> ny, m |-> nm, d |-> Min2(i.d, DaysInMonth(ny, nm)), h |-> i.h]

(***************************************************************************)
(* Index router                                                            *)
(***************************************************************************)

\* Bounds of the routing inputs: the sampled ISO strings lie in a window of
\* WindowMonths calendar months that starts at month WindowFirstMonth of
\* year WindowFirstYear (the window spans a year end and a February).
WindowFirstYear == 2023
WindowFirstMonth == 11
WindowMonths == 5
MaxOffsetHours == 2

SampleDays == {1, 15, 28, 29, 30, 31}
SampleHours == {0, 12}
SampleOffsets == {0, MaxOffsetHours}

\* The k-th month of the window, as [y, m].
WindowMonth(k) ==
    LET idx == WindowFirstYear * 12 + (WindowFirstMonth - 1) + k
    IN  [y |-> idx \div 12, m |-> (idx % 12) + 1]

\* The sampled ISO strings (all present).
IsoStrings ==
    { [given |-> TRUE, y |-> WindowMonth(k).y, m |-> WindowMonth(k).m,
       d |-> d, h |-> h, off |-> off] :
        k \in 0..(WindowMonths - 1), d \in SampleDays, h \in SampleHours,
        off \in SampleOffsets }

ValidIsoStrings == { i \in IsoStrings : i.d <= DaysInMonth(i.y, i.m) }

\* The readings of the wall clock used when start / end are omitted.
ClockReadings ==
    { ToUtc(i) : i \in { j \in ValidIsoStrings : j.off = 0 /\ j.d \in {1, 31} } }

\* The value standing for a clock that a call does not read.
UnreadClock == [y |-> 1970, m |-> 1, d |-> 1, h |-> 0]

CompanyIds == {"c1", "c2"}

\* _indexPattern, as the sequence of its literal pieces and placeholders.
DefaultIndexPattern == <<"actions_", "{companyId}", "_", "{year}", "_", "{month}">>

RECURSIVE ReplaceAll(_, _, _)
\* String.prototype.replace(/\{name\}/g, value) on a pattern held as pieces:
\* every piece that is the placeholder becomes the value.
ReplaceAll(pieces, placeholder, value) ==
    IF pieces = <<>> THEN <<>>
    ELSE <<(IF Head(pieces) = placeholder THEN value ELSE Head(pieces))>>
            \o ReplaceAll(Tail(pieces), placeholder, value)

\* new Date(action.timestamp): the instant the ISO timestamp names.
DateParse(iso) == ToUtc(iso)

\* DateTime.fromISO(s, {zone: "utc"}): the same instant, shown in UTC.
FromISO(iso) == ToUtc(iso)

\* A getIndexName that takes year and month as written in the timestamp,
\* without bringing the instant to UTC first.
getIndexNameWrittenMonth(pattern, action) ==
    LET month0 == ToString(action.timestamp.m)
        month  == IF action.timestamp.m < 10 THEN "0" \o month0 ELSE month0
        cid    == IF Truthy(action.companyId) THEN action.companyId.s ELSE ""
    IN  Concat(ReplaceAll(ReplaceAll(ReplaceAll(pattern,
            "{companyId}", cid), "{year}", ToString(action.timestamp.y)),
            "{month}", month))

\* getIndexName(action): the write index of an action.
getIndexName(pattern, action) ==
    LET timestamp == DateParse(action.timestamp)
        year   == ToString(timestamp.y)
        month0 == ToString(timestamp.m)
        month  == IF timestamp.m < 10 THEN "0" \o month0 ELSE month0
        cid    == IF Truthy(action.companyId) THEN action.companyId.s ELSE ""
    IN  Concat(ReplaceAll(ReplaceAll(ReplaceAll(pattern,
            "{companyId}", cid), "{year}", year), "{month}", month))

RECURSIVE SplitFrom(_, _, _, _)
\* The loop of luxon's Interval#splitBy({month: 1}): the idx-th cut is
\* start + idx months, the last piece is cut at the end of the interval.
SplitFrom(start, s, e, idx) ==
    IF ~(Ord(s) < Ord(e)) THEN <<>>
    ELSE LET added == PlusMonths(start, idx)
             next  == IF Ord(added) > Ord(e) THEN e ELSE added
         IN  <<[start |-> s, end |-> next]>> \o SplitFrom(start, next, e, idx + 1)

\* Interval.fromDateTimes(start, end).splitBy({month: 1}); an interval whose
\* end precedes its start is invalid and splits into nothing.
SplitByMonth(start, end) ==
    IF Ord(end) < Ord(start) THEN <<>> ELSE SplitFrom(start, start, end, 1)

\* The start and end instants getIndexNameRange resolves; now1 and now2 are
\* the two readings of the clock it takes when start / end are omitted.
RangeStart(start, now1, monthsAgo) ==
    IF start.given THEN FromISO(start) ELSE PlusMonths(now1, 0 - monthsAgo)

RangeEnd(end, now2) == IF end.given THEN FromISO(end) ELSE now2

\* The index name getIndexNameRange builds for one piece of the interval:
\* year and month are taken from the END of the piece.
BucketIndexName(pattern, companyId, d) ==
    Concat(ReplaceAll(ReplaceAll(ReplaceAll(pattern,
        "{companyId}", companyId), "{year}", Pad4(d.end.y)),
        "{month}", Pad2(d.end.m)))

\* getIndexNameRange({companyId, start, end}), before the join(","):
\* the sequence of index names.
IndexNameList(pattern, monthsAgo, companyId, start, end, now1, now2) ==
    LET startDate == RangeStart(start, now1, monthsAgo)
        endDate   == RangeEnd(end, now2)
        pieces    == SplitByMonth(startDate, endDate)
    IN  [k \in DOMAIN pieces |-> BucketIndexName(pattern, companyId, pieces[k])]

\* getIndexNameRange({companyId, start, end}): the comma-joined index names.
getIndexNameRange(pattern, monthsAgo, companyId, start, end, now1, now2) ==
    Join(IndexNameList(pattern, monthsAgo, companyId, start, end, now1, now2), ",")


\* _defaultStartMonthsAgo
DefaultStartMonthsAgo == 6

\* The index patterns an instance is configured with: the default one and
\* one given through the constructor's indexPattern option.
IndexPatterns ==
    { DefaultIndexPattern, <<"{year}", "{month}", "-", "{companyId}">> }

\* No routing call made yet.
RtIdle ==
    [op |-> "none", pattern |-> DefaultIndexPattern, companyId |-> None,
     timestamp |-> NoIso, start |-> NoIso, end |-> NoIso,
     now1 |-> NoIso, now2 |-> NoIso, name |-> "", names |-> <<>>, joined |-> ""]

\* A caller asks for the write index of an action.
CallGetIndexName ==
    /\ rt.op = "none"
    /\ \E pattern \in IndexPatterns, c \in {None} \cup {Some(x) : x \in CompanyIds},
       ts \in ValidIsoStrings :
        rt' = [RtIdle EXCEPT !.op = "getIndexName", !.pattern = pattern,
                  !.companyId = c, !.timestamp = ts,
                  !.name = getIndexName(pattern, [companyId |-> c, timestamp |-> ts])]
    /\ UNCHANGED <<cd, qr, eng, tpl, mp, fc>>

\* A caller asks for the read indices of a time range.  The clock is read
\* only for an omitted bound; the second reading is not before the first.
CallGetIndexNameRange ==
    /\ rt.op = "none"
    /\ \E pattern \in IndexPatterns, c \in CompanyIds,
       start \in ValidIsoStrings \cup {NoIso}, end \in ValidIsoStrings \cup {NoIso} :
      \E n1 \in (IF start.given THEN {UnreadClock} ELSE ClockReadings),
         n2 \in (IF end.given THEN {UnreadClock} ELSE ClockReadings) :
        /\ (~start.given /\ ~end.given) => Ord(n1) <= Ord(n2)
        /\ LET now1 == IF start.given THEN NoIso
                       ELSE [given |-> TRUE, y |-> n1.y, m |-> n1.m, d |-> n1.d,
                             h |-> n1.h, off |-> 0]
               now2 == IF end.given THEN NoIso
                       ELSE [given |-> TRUE, y |-> n2.y, m |-> n2.m, d |-> n2.d,
                             h |-> n2.h, off |-> 0]
               names == IndexNameList(pattern, DefaultStartMonthsAgo, c,
                                      start, end, n1, n2)
           IN  rt' = [RtIdle EXCEPT !.op = "getIndexNameRange", !.pattern = pattern,
                         !.companyId = Some(c), !.start = start, !.end = end,
                         !.now1 = now1, !.now2 = now2, !.names = names,
                         !.joined = getIndexNameRange(pattern, DefaultStartMonthsAgo,
                                                      c, start, end, n1, n2)]
    /\ UNCHANGED <<cd, qr, eng, tpl, mp, fc>>


(***************************************************************************)
(* JavaScript values                                                       *)
(***************************************************************************)

\* A JS value is a tagged record.  An object holds its own enumerable
\* properties as a sequence of [k, v] pairs, in insertion order.
Undefined == [t |-> "undefined"]
Null == [t |-> "null"]
Str(s) == [t |-> "string", v |-> s]
Num(n) == [t |-> "number", v |-> n]
Bool(b) == [t |-> "boolean", v |-> b]
Arr(elems) == [t |-> "array", v |-> elems]
Obj(pairs) == [t |-> "object", v |-> pairs]
P(key, val) == [k |-> key, v |-> val]

\* typeof
TypeOf(x) == IF x.t \in {"null", "array", "object"} THEN "object" ELSE x.t

IsArray(x) == x.t = "array"

\* Object.keys(x) of an object or array.
Keys(x) ==
    IF x.t = "object" THEN [i \in DOMAIN x.v |-> x.v[i].k]
    ELSE IF x.t = "array" THEN [i \in DOMAIN x.v |-> ToString(i - 1)]
    ELSE <<>>

HasKey(x, key) ==
    IF x.t = "object" THEN \E i \in DOMAIN x.v : x.v[i].k = key
    ELSE IF x.t = "array" THEN \E i \in DOMAIN x.v : ToString(i - 1) = key
    ELSE FALSE

\* x[key] for a non-null x: a property of an object, an element or the
\* length of an array, undefined otherwise.
Get(x, key) ==
    IF x.t = "object" THEN
        (IF \E i \in DOMAIN x.v : x.v[i].k = key
         THEN x.v[CHOOSE i \in DOMAIN x.v :
                    x.v[i].k = key /\ \A j \in (i + 1)..Len(x.v) : x.v[j].k # key].v
         ELSE Undefined)
    ELSE IF x.t = "array" THEN
        (IF \E i \in DOMAIN x.v : ToString(i - 1) = key
         THEN x.v[CHOOSE i \in DOMAIN x.v : ToString(i - 1) = key]
         ELSE IF key = "length" THEN Num(Len(x.v)) ELSE Undefined)
    ELSE Undefined

RECURSIVE UnionKeys(_, _)
\* Object.keys({...a, ...b}) past the keys of a: the keys of b that a lacks.
UnionKeys(a, bkeys) ==
    IF bkeys = <<>> THEN <<>>
    ELSE (IF HasKey(a, Head(bkeys)) THEN <<>> ELSE <<Head(bkeys)>>)
            \o UnionKeys(a, Tail(bkeys))

(***************************************************************************)
(* deepCompareObjects (utils.ts)                                           *)
(***************************************************************************)

RECURSIVE deepCompare3(_, _)
RECURSIVE EveryKey(_, _, _)
RECURSIVE EveryIndex(_, _, _, _)

\* keys.every(key => deepCompareObjects(a[key], b[key])): "true", "false",
\* or "throws" when b is null and a property of it is read.
EveryKey(a, b, keys) ==
    IF keys = <<>> THEN "true"
    ELSE IF b.t = "null" THEN "throws"
    ELSE LET r == deepCompare3(Get(a, Head(keys)), Get(b, Head(keys)))
         IN  IF r = "true" THEN EveryKey(a, b, Tail(keys)) ELSE r

\* The every() over the indices i..n-1 of two arrays.
EveryIndex(a, b, i, n) ==
    IF i >= n THEN "true"
    ELSE LET r == deepCompare3(Get(a, ToString(i)), Get(b, ToString(i)))
         IN  IF r = "true" THEN EveryIndex(a, b, i + 1, n) ELSE r

\* deepCompareObjects(a, b), with its three outcomes.
deepCompare3(a, b) ==
    IF TypeOf(a) # TypeOf(b) THEN "false"
    ELSE IF TypeOf(a) # "object" /\ TypeOf(b) # "object"
        THEN (IF a = b THEN "true" ELSE "false")
    ELSE IF a.t = "null" THEN (IF b.t = "null" THEN "true" ELSE "false")
    ELSE IF IsArray(a) THEN
        (IF ~IsArray(b) THEN "false"
         ELSE LET n == IF Len(a.v) >= Len(b.v) THEN Len(a.v) ELSE Len(b.v)
              IN  EveryIndex(a, b, 0, IF n = 0 THEN 1 ELSE n))
    ELSE EveryKey(a, b, Keys(a) \o UnionKeys(a, Keys(b)))

\* deepCompareObjects(a, b) where it returns.
deepCompareObjects(a, b) == deepCompare3(a, b) = "true"

(***************************************************************************)
(* Declared schema (mapping.ts)                                            *)
(***************************************************************************)

Keyword == Obj(<<P("type", Str("keyword"))>>)

\* INDEX_MAPPING: three of its properties (id, timestamp, framework), which
\* show every shape the declared schema has: a one-key leaf, a two-key leaf
\* and a nested `properties` object.
INDEX_MAPPING ==
    Obj(<< P("id", Keyword),
           P("timestamp", Obj(<<P("type", Str("date")), P("format", Str("date_time"))>>)),
           P("framework", Obj(<<P("properties",
                Obj(<<P("name", Keyword), P("version", Keyword)>>))>>)) >>)

\* Mappings a cluster may hold for a template or an index: the declared
\* one (also with its keys in another order), one lacking a field, one with
\* a field of another type, one with a field added deep inside, an empty one.
SampleMappings ==
    { INDEX_MAPPING,
      Obj(<< P("timestamp", Obj(<<P("format", Str("date_time")), P("type", Str("date"))>>)),
             P("id", Keyword),
             P("framework", Obj(<<P("properties",
                  Obj(<<P("name", Keyword), P("version", Keyword)>>))>>)) >>),
      Obj(<< P("id", Keyword),
             P("timestamp", Obj(<<P("type", Str("date")), P("format", Str("date_time"))>>)) >>),
      Obj(<< P("id", Obj(<<P("type", Str("text"))>>)),
             P("timestamp", Obj(<<P("type", Str("date")), P("format", Str("date_time"))>>)),
             P("framework", Obj(<<P("properties",
                  Obj(<<P("name", Keyword), P("version", Keyword)>>))>>)) >>),
      Obj(<< P("id", Keyword),
             P("timestamp", Obj(<<P("type", Str("date")), P("format", Str("date_time"))>>)),
             P("framework", Obj(<<P("properties",
                  Obj(<<P("name", Keyword), P("version", Keyword),
                        P("build", Keyword)>>))>>)) >>),
      Obj(<<>>) }

(***************************************************************************)
(* Mapping manager: constructor, upsertIndexTemplates, updateIndexMappings *)
(***************************************************************************)

\* The logger calls of the handlers are taken to return normally.

\* The number of indices the cluster may list for the template pattern.
MaxIndices == 2

IndexUniverse == { "index" \o ToString(k) : k \in 1..MaxIndices }

\* JS truthiness of a value.
IsTruthy(x) ==
    CASE x.t \in {"undefined", "null"} -> FALSE
      [] x.t = "string" -> x.v # ""
      [] x.t = "number" -> x.v # 0
      [] x.t = "boolean" -> x.v
      [] OTHER -> TRUE

\* What the client answers to a call: a rejection (an error), or a result;
\* for getIndexTemplate and indices.get the result carries the `properties`
\* found under the mapping path (undefined when the path is missing).
ClientFailure == [ok |-> FALSE, props |-> Undefined]
ClientSuccess(props) == [ok |-> TRUE, props |-> props]
MappingResponses ==
    {ClientFailure} \cup { ClientSuccess(m) : m \in SampleMappings \cup {Undefined} }

RECURSIVE Canon(_)
\* The structure of a value, free of the order of object keys: an object
\* becomes the function from its keys to the structure of their values.
Canon(x) ==
    IF x.t = "object" THEN
        [t |-> "object",
         f |-> [key \in Range(Keys(x)) |-> Canon(Get(x, key))]]
    ELSE IF x.t = "array" THEN
        [t |-> "array", f |-> [i \in DOMAIN x.v |-> Canon(x.v[i])]]
    ELSE [t |-> x.t, f |-> x]

\* What the cluster answered, as a fact about the answer itself: the call
\* failed, the mapping is absent, or it has / has not the structure of the
\* declared schema.
Fetched(resp) ==
    IF ~resp.ok THEN "failed"
    ELSE IF resp.props.t = "undefined" THEN "absent"
    ELSE IF Canon(resp.props) = Canon(INDEX_MAPPING) THEN "equal"
    ELSE "differ"

\* The value the first promise of upsertIndexTemplates / updateIndexMapping
\* resolves with: the mapping when present and equal to INDEX_MAPPING, null
\* when it differs (or the comparison throws), the missing value when
\* absent, null when the call was rejected.
ResolvedMapping(resp) ==
    IF ~resp.ok THEN Null
    ELSE IF IsTruthy(resp.props)
        THEN (IF deepCompare3(resp.props, INDEX_MAPPING) = "true" THEN resp.props ELSE Null)
    ELSE resp.props

\* Fetched and the truthiness of ResolvedMapping, tabulated over the responses.
FetchedOf == [r \in MappingResponses |-> Fetched(r)]
ResolvedTruthy == [r \in MappingResponses |-> IsTruthy(ResolvedMapping(r))]

\* A constructor that takes the option only when it is truthy, as it does
\* for its other options: `false` is then ignored.
AutoUpdateWhenTruthy(option) == TRUE

\* this._autoUpdateIndexMappings after the constructor read its option.
AutoUpdateIndexMappings(option) ==
    IF option # "undefined" THEN option = "true" ELSE TRUE

EngNew == [pc |-> "new", option |-> "undefined", autoUpdate |-> TRUE]

TplIdle ==
    [pc |-> "idle", started |-> 0, gets |-> 0, puts |-> 0,
     fetched |-> "none", putResult |-> "none", outcome |-> "none"]

TaskIdle ==
    [pc |-> "idle", gets |-> 0, puts |-> 0, body |-> Undefined,
     fetched |-> "none", putResult |-> "none", outcome |-> "none"]

MpIdle ==
    [pc |-> "idle", started |-> 0, cats |-> 0, catResult |-> "none",
     indices |-> {}, outcome |-> "none",
     task |-> [i \in IndexUniverse |-> TaskIdle]]

\* upsertIndexTemplates() up to its first await: getIndexTemplate is issued.
StartUpsertIndexTemplates(t) ==
    [t EXCEPT !.pc = "awaitGet", !.started = @ + 1, !.gets = @ + 1,
              !.outcome = "pending"]

\* updateIndexMappings() up to its first await: cat.indices is issued.
StartUpdateIndexMappings(m) ==
    [m EXCEPT !.pc = "awaitCat", !.started = @ + 1, !.cats = @ + 1,
              !.outcome = "pending"]

\* new OpenSearchEngine(options, clientOptions): the options are read, the
\* client is built and, when _autoUpdateIndexMappings holds, both tasks are
\* started and not awaited; the constructor returns the instance.
Construct ==
    /\ eng.pc = "new"
    /\ \E option \in {"undefined", "true", "false"} :
        LET auto == AutoUpdateIndexMappings(option)
        IN  /\ eng' = [pc |-> "constructed", option |-> option, autoUpdate |-> auto]
            /\ tpl' = IF auto THEN StartUpsertIndexTemplates(tpl) ELSE tpl
            /\ mp' = IF auto THEN StartUpdateIndexMappings(mp) ELSE mp
    /\ UNCHANGED <<rt, cd, qr, fc>>

\* upsertIndexTemplates that leaves a template alone whenever one was
\* fetched, and creates one only when the fetch failed.
UpsertAfterGetKeepsFetched(t, resp) ==
    IF resp.ok /\ IsTruthy(resp.props)
    THEN [t EXCEPT !.pc = "done", !.fetched = FetchedOf[resp], !.outcome = "resolved"]
    ELSE [t EXCEPT !.pc = "awaitPut", !.fetched = FetchedOf[resp], !.puts = @ + 1]

\* upsertIndexTemplates after its getIndexTemplate call settled: it returns
\* when the resolved template is truthy, else goes on to
\* createIndexTemplates(), which issues putIndexTemplate.
UpsertAfterGet(t, resp) ==
    IF ResolvedTruthy[resp]
    THEN [t EXCEPT !.pc = "done", !.fetched = FetchedOf[resp], !.outcome = "resolved"]
    ELSE [t EXCEPT !.pc = "awaitPut", !.fetched = FetchedOf[resp], !.puts = @ + 1]

\* The client settles getIndexTemplate.
GetIndexTemplateSettles ==
    /\ tpl.pc = "awaitGet"
    /\ \E resp \in MappingResponses : tpl' = UpsertAfterGet(tpl, resp)
    /\ UNCHANGED <<rt, cd, qr, eng, mp, fc>>

\* createIndexTemplates whose putIndexTemplate error handler rethrows.
UpsertAfterPutRethrows(t, ok) ==
    [t EXCEPT !.pc = "done", !.putResult = IF ok THEN "ok" ELSE "failed",
              !.outcome = IF ok THEN "resolved" ELSE "rejected"]

\* createIndexTemplates after putIndexTemplate settled: success and error
\* both resolve, and upsertIndexTemplates returns.
UpsertAfterPut(t, ok) ==
    [t EXCEPT !.pc = "done", !.putResult = IF ok THEN "ok" ELSE "failed",
              !.outcome = "resolved"]

\* The client settles putIndexTemplate.
PutIndexTemplateSettles ==
    /\ tpl.pc = "awaitPut"
    /\ \E ok \in BOOLEAN : tpl' = UpsertAfterPut(tpl, ok)
    /\ UNCHANGED <<rt, cd, qr, eng, mp, fc>>

\* updateIndexMapping(index) up to its first await: indices.get is issued.
StartUpdateIndexMapping(k) ==
    [k EXCEPT !.pc = "awaitGet", !.gets = @ + 1, !.outcome = "pending"]

\* updateIndexMappings after cat.indices settled.  A rejection resolves to
\* the empty list.  With no index listed the task returns; otherwise
\* updateIndexMapping is called for every listed index (each issues its
\* indices.get at once) and the task awaits Promise.all of them.
UpdateAfterCat(m, ok, listed) ==
    LET indices == IF ok THEN listed ELSE {}
    IN  IF indices = {}
        THEN [m EXCEPT !.pc = "done", !.catResult = IF ok THEN "ok" ELSE "failed",
                       !.outcome = "resolved"]
        ELSE [m EXCEPT !.pc = "fanout", !.catResult = "ok", !.indices = indices,
                       !.task = [i \in IndexUniverse |->
                                    IF i \in indices THEN StartUpdateIndexMapping(m.task[i])
                                    ELSE m.task[i]]]

\* The client settles cat.indices.
CatIndicesSettles ==
    /\ mp.pc = "awaitCat"
    /\ \E ok \in BOOLEAN, listed \in SUBSET IndexUniverse :
        /\ ~ok => listed = {}
        /\ mp' = UpdateAfterCat(mp, ok, listed)
    /\ UNCHANGED <<rt, cd, qr, eng, tpl, fc>>

\* updateIndexMapping that puts the mapping only when none was fetched.
MappingAfterGetPutsWhenAbsent(k, resp) ==
    IF resp.ok /\ IsTruthy(resp.props)
    THEN [k EXCEPT !.pc = "done", !.fetched = FetchedOf[resp], !.outcome = "resolved"]
    ELSE [k EXCEPT !.pc = "awaitPut", !.fetched = FetchedOf[resp], !.puts = @ + 1,
                   !.body = Obj(<<P("properties", INDEX_MAPPING)>>)]

\* updateIndexMapping after its indices.get settled: putMapping is issued,
\* with the declared schema as its body, unless the resolved mapping is
\* truthy.
MappingAfterGet(k, resp) ==
    IF ResolvedTruthy[resp]
    THEN [k EXCEPT !.pc = "done", !.fetched = FetchedOf[resp], !.outcome = "resolved"]
    ELSE [k EXCEPT !.pc = "awaitPut", !.fetched = FetchedOf[resp], !.puts = @ + 1,
                   !.body = Obj(<<P("properties", INDEX_MAPPING)>>)]

\* The client settles the indices.get of one index.
IndicesGetSettles ==
    /\ mp.pc = "fanout"
    /\ \E i \in mp.indices, resp \in MappingResponses :
        /\ mp.task[i].pc = "awaitGet"
        /\ mp' = [mp EXCEPT !.task[i] = MappingAfterGet(mp.task[i], resp)]
    /\ UNCHANGED <<rt, cd, qr, eng, tpl, fc>>

\* updateIndexMapping whose putMapping error handler rethrows.
MappingAfterPutRethrows(k, ok) ==
    [k EXCEPT !.pc = "done", !.putResult = IF ok THEN "ok" ELSE "failed",
              !.outcome = IF ok THEN "resolved" ELSE "rejected"]

\* updateIndexMapping after putMapping settled: success and error both
\* resolve, and updateIndexMapping returns.
MappingAfterPut(k, ok) ==
    [k EXCEPT !.pc = "done", !.putResult = IF ok THEN "ok" ELSE "failed",
              !.outcome = "resolved"]

\* The client settles the putMapping of one index.
PutMappingSettles ==
    /\ mp.pc = "fanout"
    /\ \E i \in mp.indices, ok \in BOOLEAN :
        /\ mp.task[i].pc = "awaitPut"
        /\ mp' = [mp EXCEPT !.task[i] = MappingAfterPut(mp.task[i], ok)]
    /\ UNCHANGED <<rt, cd, qr, eng, tpl, fc>>

\* Promise.all over the per-index tasks: fulfilled when all are fulfilled,
\* rejected as soon as one is rejected.
PromiseAllSettled(m) ==
    \/ \A i \in m.indices : m.task[i].outcome = "resolved"
    \/ \E i \in m.indices : m.task[i].outcome = "rejected"

PromiseAllOutcome(m) ==
    IF \E i \in m.indices : m.task[i].outcome = "rejected" THEN "rejected"
    ELSE "resolved"

\* updateIndexMappings resumes after await Promise.all(...) and returns.
UpdateIndexMappingsReturns ==
    /\ mp.pc = "fanout"
    /\ PromiseAllSettled(mp)
    /\ mp' = [mp EXCEPT !.pc = "done", !.outcome = PromiseAllOutcome(mp)]
    /\ UNCHANGED <<rt, cd, qr, eng, tpl, fc>>

(***************************************************************************)
(* Filter compiler (engine.ts buildFindManyQuery)                          *)
(***************************************************************************)

\* A filters value is held as its companyId, its start and end, and `rest`,
\* the object of all its other properties.  Clauses are the objects the
\* code builds.

Term(field, value) == Obj(<<P("term", Obj(<<P(field, value)>>))>>)

Terms(field, values) == Obj(<<P("terms", Obj(<<P(field, values)>>))>>)

BoolOf(kind, clauses) == Obj(<<P("bool", Obj(<<P(kind, Arr(clauses))>>))>>)

Nested(path, query) ==
    Obj(<<P("nested", Obj(<<P("path", Str(path)), P("query", query)>>))>>)

\* Array.isArray(x) ? x : [x], as the list of its elements.
AsList(x) == IF IsArray(x) THEN x.v ELSE <<x>>

\* A push that wraps every non-empty list of clauses in a bool, a single
\* clause included.
OneOrBoolAlwaysWraps(kind, clauses) ==
    IF Len(clauses) > 0 THEN <<BoolOf(kind, clauses)>> ELSE <<>>

\* What is pushed for a list of clauses: the clause itself when there is
\* one, a bool over them when there are more, nothing when there is none.
OneOrBool(kind, clauses) ==
    IF Len(clauses) = 1 THEN <<clauses[1]>>
    ELSE IF Len(clauses) > 0 THEN <<BoolOf(kind, clauses)>>
    ELSE <<>>

\* length === 1 ? list[0] : {bool: {must: list}}
QueryOf(clauses) == IF Len(clauses) = 1 THEN clauses[1] ELSE BoolOf("must", clauses)

\* A compiler that writes the wall-clock time of start and end as if it
\* were UTC, dropping the offset.
AlwaysPresentWallClock(filters, monthsAgo, now1, now2) ==
    << Term("companyId", Str(filters.companyId)),
       Obj(<<P("range", Obj(<<P("timestamp", Obj(<<
           P("gte", Str(ToISO(IF filters.start.given
                                  THEN [y |-> filters.start.y, m |-> filters.start.m,
                                        d |-> filters.start.d, h |-> filters.start.h]
                                  ELSE PlusMonths(now1, 0 - monthsAgo)))),
           P("lt", Str(ToISO(IF filters.end.given
                                 THEN [y |-> filters.end.y, m |-> filters.end.m,
                                       d |-> filters.end.d, h |-> filters.end.h]
                                 ELSE now2)))>>))>>))>> ) >>

\* The first two clauses: the company term and the timestamp range, each
\* bound the UTC ISO form of the given instant or of a reading of the clock.
AlwaysPresent(filters, monthsAgo, now1, now2) ==
    << Term("companyId", Str(filters.companyId)),
       Obj(<<P("range", Obj(<<P("timestamp", Obj(<<
           P("gte", Str(ToISO(IF filters.start.given
                                  THEN FromISO(filters.start)
                                  ELSE PlusMonths(now1, 0 - monthsAgo)))),
           P("lt", Str(ToISO(IF filters.end.given
                                 THEN FromISO(filters.end)
                                 ELSE now2)))>>))>>))>> ) >>

RECURSIVE ScalarSetTerms(_, _)
\* One terms clause per truthy filter among the keys, a bare value wrapped
\* in an array.
ScalarSetTerms(rest, keys) ==
    IF keys = <<>> THEN <<>>
    ELSE LET value == Get(rest, Head(keys))
         IN  (IF IsTruthy(value)
              THEN <<Terms(Head(keys), IF IsArray(value) THEN value ELSE Arr(<<value>>))>>
              ELSE <<>>)
             \o ScalarSetTerms(rest, Tail(keys))

RECURSIVE FieldTermsReversed(_, _, _)
FieldTermsReversed(candidate, keys, fields) ==
    IF keys = <<>> THEN <<>>
    ELSE FieldTermsReversed(candidate, Tail(keys), Tail(fields))
         \o (IF IsTruthy(Get(candidate, Head(keys)))
             THEN <<Term(Head(fields), Get(candidate, Head(keys)))>>
             ELSE <<>>)

RECURSIVE FieldTerms(_, _, _)
\* One term per truthy property of a candidate among the keys, in the
\* order of the keys; fields gives the document field of each key.
FieldTerms(candidate, keys, fields) ==
    IF keys = <<>> THEN <<>>
    ELSE (IF IsTruthy(Get(candidate, Head(keys)))
          THEN <<Term(Head(fields), Get(candidate, Head(keys)))>>
          ELSE <<>>)
         \o FieldTerms(candidate, Tail(keys), Tail(fields))

RECURSIVE MapTerms(_, _, _)
\* For each key of a map, a term on <path>.key and a term on
\* <path>.value.keyword, all in one list.
MapTerms(map, keys, path) ==
    IF keys = <<>> THEN <<>>
    ELSE << Term(path \o ".key", Str(Head(keys))),
            Term(path \o ".value.keyword", Get(map, Head(keys))) >>
         \o MapTerms(map, Tail(keys), path)

\* The meta of an agent, target or change: one nested clause over all the
\* terms of the map.
EntityMeta(entity, path) ==
    LET meta == Get(entity, "meta")
    IN  IF IsTruthy(meta) /\ Len(Keys(meta)) > 0
        THEN <<Nested(path \o ".meta", QueryOf(MapTerms(meta, Keys(meta), path \o ".meta")))>>
        ELSE <<>>

\* A forEach over the candidates that stops after the first one.
GroupShouldFirstOnly(candidates, keys, fields, path, withMeta) ==
    IF candidates = <<>> THEN <<>>
    ELSE OneOrBool("must",
            FieldTerms(Head(candidates), keys, fields)
                \o (IF withMeta THEN EntityMeta(Head(candidates), path) ELSE <<>>))

RECURSIVE GroupShould(_, _, _, _, _)
\* The forEach over the candidates of framework, action, agents, targets
\* or changes: the clause of each candidate that has one.
GroupShould(candidates, keys, fields, path, withMeta) ==
    IF candidates = <<>> THEN <<>>
    ELSE OneOrBool("must",
            FieldTerms(Head(candidates), keys, fields)
                \o (IF withMeta THEN EntityMeta(Head(candidates), path) ELSE <<>>))
         \o GroupShould(Tail(candidates), keys, fields, path, withMeta)

FrameworkClauses(rest) ==
    IF ~IsTruthy(Get(rest, "framework")) THEN <<>>
    ELSE OneOrBool("should",
            GroupShould(AsList(Get(rest, "framework")), <<"name", "version">>,
                        <<"framework.name", "framework.version">>, "framework", FALSE))

ActionClauses(rest) ==
    IF ~IsTruthy(Get(rest, "action")) THEN <<>>
    ELSE OneOrBool("should",
            GroupShould(AsList(Get(rest, "action")), <<"id", "type", "verb", "object">>,
                        <<"action.id", "action.type", "action.verb", "action.object.keyword">>,
                        "action", FALSE))

\* agents, targets, changes: the candidates under one nested clause.
EntityClauses(value, keys, fields, path) ==
    IF ~IsTruthy(value) THEN <<>>
    ELSE LET should == GroupShould(AsList(value), keys, fields, path, TRUE)
         IN  IF Len(should) > 0
             THEN <<Nested(path, IF Len(should) = 1 THEN should[1]
                                 ELSE BoolOf("should", should))>>
             ELSE <<>>

AgentsClauses(rest) ==
    EntityClauses(Get(rest, "agents"), <<"id", "type", "name">>,
                  <<"agents.id", "agents.type", "agents.name">>, "agents")

TargetsClauses(rest) ==
    EntityClauses(Get(rest, "targets"), <<"id", "type", "name">>,
                  <<"targets.id", "targets.type", "targets.name">>, "targets")

ChangesClauses(rest) ==
    EntityClauses(Get(rest, "changes"),
                  <<"model", "operation", "id", "path", "before", "after">>,
                  <<"changes.model", "changes.operation", "changes.id",
                    "changes.path.keyword", "changes.before.keyword",
                    "changes.after.keyword">>, "changes")

RECURSIVE InnerRequestClausesNoParent(_, _, _)
\* Clauses of a parent key that leave out the term on request.parent.
InnerRequestClausesNoParent(parent, value, innerKeys) ==
    IF innerKeys = <<>> THEN <<>>
    ELSE << Nested("request", BoolOf("must",
                << Term("request.key", Str(Head(innerKeys))),
                   Term("request.value.keyword", Get(value, Head(innerKeys))) >>)) >>
         \o InnerRequestClausesNoParent(parent, value, Tail(innerKeys))

RECURSIVE InnerRequestClauses(_, _, _)
\* The clauses of a parent key of a request filter: one per inner key.
InnerRequestClauses(parent, value, innerKeys) ==
    IF innerKeys = <<>> THEN <<>>
    ELSE << Nested("request", BoolOf("must",
                << Term("request.key", Str(Head(innerKeys))),
                   Term("request.parent", Str(parent)),
                   Term("request.value.keyword", Get(value, Head(innerKeys))) >>)) >>
         \o InnerRequestClauses(parent, value, Tail(innerKeys))

RECURSIVE RequestMust(_, _)
\* The clauses of one request filter object, key by key.
RequestMust(request, keys) ==
    IF keys = <<>> THEN <<>>
    ELSE LET key == Head(keys)
             value == Get(request, key)
         IN  (IF IsTruthy(value) /\ TypeOf(value) = "object"
              THEN InnerRequestClauses(key, value, Keys(value))
              ELSE << Nested("request", BoolOf("must",
                        << Term("request.key", Str(key)),
                           Term("request.value.keyword", value) >>)) >>)
             \o RequestMust(request, Tail(keys))

RECURSIVE RequestShould(_)
RequestShould(requests) ==
    IF requests = <<>> THEN <<>>
    ELSE OneOrBool("must", RequestMust(Head(requests), Keys(Head(requests))))
         \o RequestShould(Tail(requests))

RequestClauses(rest) ==
    IF ~IsTruthy(Get(rest, "request")) THEN <<>>
    ELSE OneOrBool("should", RequestShould(AsList(Get(rest, "request"))))

RECURSIVE MapShouldPerKey(_, _)
\* A compiler of response.body / response.headers that gives every key of a
\* map its own nested clause, as the top-level meta filter does.
MapShouldPerKey(maps, path) ==
    IF maps = <<>> THEN <<>>
    ELSE LET keys == Keys(Head(maps))
             each == [j \in DOMAIN keys |->
                        Nested(path, BoolOf("must",
                            << Term(path \o ".key", Str(keys[j])),
                               Term(path \o ".value.keyword", Get(Head(maps), keys[j])) >>))]
         IN  OneOrBool("must", each) \o MapShouldPerKey(Tail(maps), path)

RECURSIVE MapShould(_, _)
\* response.body / response.headers: per map, one nested clause over all
\* the terms of the map.
MapShould(maps, path) ==
    IF maps = <<>> THEN <<>>
    ELSE LET terms == MapTerms(Head(maps), Keys(Head(maps)), path)
         IN  (IF Len(terms) > 0 THEN <<Nested(path, QueryOf(terms))>> ELSE <<>>)
             \o MapShould(Tail(maps), path)

ResponseMapClauses(value, path) ==
    IF ~IsTruthy(value) THEN <<>>
    ELSE OneOrBool("should", MapShould(AsList(value), path))

ResponseClauses(rest) ==
    LET response == Get(rest, "response")
        status == Get(response, "status")
        gte == Get(Get(response, "time"), "gte")
        lt == Get(Get(response, "time"), "lt")
    IN  IF ~IsTruthy(response) THEN <<>>
        ELSE OneOrBool("must",
                (IF IsTruthy(status)
                 THEN <<IF IsArray(status) THEN Terms("response.status", status)
                        ELSE Term("response.status", status)>>
                 ELSE <<>>)
                \o (IF IsTruthy(gte) \/ IsTruthy(lt)
                    THEN <<Obj(<<P("range", Obj(<<P("response.time", Obj(
                            (IF IsTruthy(gte) THEN <<P("gte", gte)>> ELSE <<>>)
                            \o (IF IsTruthy(lt) THEN <<P("lt", lt)>> ELSE <<>>)))>>))>>)>>
                    ELSE <<>>)
                \o ResponseMapClauses(Get(response, "body"), "response.body")
                \o ResponseMapClauses(Get(response, "headers"), "response.headers"))

\* A meta compiler that, like the one of the entity metas, puts the terms of
\* all the keys of a map in one shared nested clause.
MetaMustShared(meta, keys) ==
    IF keys = <<>> THEN <<>>
    ELSE <<Nested("meta", QueryOf(MapTerms(meta, keys, "meta")))>>

RECURSIVE MetaMust(_, _)
\* filters.meta: one nested clause per key of a map.
MetaMust(meta, keys) ==
    IF keys = <<>> THEN <<>>
    ELSE << Nested("meta", BoolOf("must",
                << Term("meta.key", Str(Head(keys))),
                   Term("meta.value.keyword", Get(meta, Head(keys))) >>)) >>
         \o MetaMust(meta, Tail(keys))

RECURSIVE MetaShould(_)
MetaShould(metas) ==
    IF metas = <<>> THEN <<>>
    ELSE OneOrBool("must", MetaMust(Head(metas), Keys(Head(metas))))
         \o MetaShould(Tail(metas))

MetaClauses(rest) ==
    IF ~IsTruthy(Get(rest, "meta")) THEN <<>>
    ELSE OneOrBool("should", MetaShould(AsList(Get(rest, "meta"))))

\* buildFindManyQuery(options, filters): the list of clauses, now1 and now2
\* being what the clock reads for the lower and for the upper bound.
buildFindManyQuery(filters, monthsAgo, now1, now2) ==
    AlwaysPresent(filters, monthsAgo, now1, now2)
        \o ScalarSetTerms(filters.rest,
              <<"id", "clientId", "app", "environment", "sessionId", "traceIds">>)
        \o FrameworkClauses(filters.rest)
        \o ActionClauses(filters.rest)
        \o AgentsClauses(filters.rest)
        \o TargetsClauses(filters.rest)
        \o RequestClauses(filters.rest)
        \o ResponseClauses(filters.rest)
        \o ChangesClauses(filters.rest)
        \o MetaClauses(filters.rest)

(***************************************************************************)
(* Engine facade: create, createMany, findMany                             *)
(***************************************************************************)

\* The longest batch given to createMany.
MaxBatch == 2

\* _defaultPageSize
DefaultPageSize == 25

\* The errors the client rejects a call with.
ClientErrors == {"ConnectionError", "ResponseError_500"}

\* The error OpenSearchActionSchema.parse throws.
ZodError == "ZodError"

StringPair(key, value) == Obj(<<P("key", Str(key)), P("value", Str(value))>>)

\* An OpenSearchAction as the facade sees it: id, timestamp, companyId,
\* action.type, action.verb and meta stand for the fields of the schema
\* (optional string, required string, array of {key, value} strings).
OsAction(id, timestamp, companyId, type, verb, meta) ==
    [id |-> id, timestamp |-> timestamp, companyId |-> companyId,
     type |-> type, verb |-> verb, meta |-> meta]

Ts(y, m, d) == [given |-> TRUE, y |-> y, m |-> m, d |-> d, h |-> 0, off |-> 0]

ValidWithId ==
    OsAction(Some("a1"), Ts(2023, 11, 15), Some("c1"), Some("HTTP"), Some("POST"),
             Arr(<<StringPair("k", "v")>>))
ValidNoId ==
    OsAction(None, Ts(2023, 12, 31), Some("c2"), Some("HTTP"), Some("GET"), Undefined)
ValidEmptyId ==
    OsAction(Some(""), Ts(2024, 1, 1), None, Some("GRAPHQL"), Some("query"), Arr(<<>>))
NoTimestamp ==
    OsAction(Some("a2"), NoIso, Some("c1"), Some("HTTP"), Some("POST"), Undefined)
NoVerb ==
    OsAction(None, Ts(2023, 11, 15), Some("c1"), Some("HTTP"), None, Undefined)
RawMeta ==
    OsAction(Some("a3"), Ts(2023, 11, 15), Some("c1"), Some("HTTP"), Some("POST"),
             Arr(<<Obj(<<P("key", Str("n")), P("value", Num(1))>>)>>))

SampleActions == {ValidWithId, ValidNoId, ValidEmptyId, NoTimestamp, NoVerb, RawMeta}

\* z.array(z.object({key: z.string(), value: z.string()})).optional()
KeyValueArraySchema(x) ==
    \/ x.t = "undefined"
    \/ /\ x.t = "array"
       /\ \A i \in DOMAIN x.v :
            /\ x.v[i].t = "object"
            /\ Get(x.v[i], "key").t = "string"
            /\ Get(x.v[i], "value").t = "string"

\* OpenSearchActionSchema.parse(action) returns (TRUE) or throws (FALSE).
SchemaParse(action) ==
    /\ action.timestamp.given
    /\ action.type.some
    /\ action.verb.some
    /\ KeyValueArraySchema(action.meta)

\* v4(): the n-th identifier generated.
Uuid(n) == "uuid-" \o ToString(n)

WithIdAlwaysFresh(action, id) == [action EXCEPT !.id = Some(id)]

\* { ...action, id: action.id || id }
WithId(action, id) ==
    [action EXCEPT !.id = IF Truthy(action.id) THEN action.id ELSE Some(id)]

NoRequest == [kind |-> "none"]

\* How the client settled the call: not yet, fulfilled, or rejected with err.
NoResponse == [settled |-> FALSE, ok |-> FALSE, err |-> ""]
Fulfilled == [settled |-> TRUE, ok |-> TRUE, err |-> ""]
Rejected(err) == [settled |-> TRUE, ok |-> FALSE, err |-> err]

\* failed: the items for which the body of a fulfilled bulk call reports an
\* error (errors: true, items[k].index.error).
FcIdle ==
    [op |-> "none", pc |-> "idle", input |-> <<>>, calls |-> 0,
     request |-> NoRequest, response |-> NoResponse, error |-> "", result |-> <<>>,
     failed |-> {}]

\* create(action) up to its await: the action is validated; a valid one is
\* given an id and sent with one index call.  A schema error rejects the
\* call before anything is sent.
CreateStart(pattern, action) ==
    IF ~SchemaParse(action)
    THEN [FcIdle EXCEPT !.op = "create", !.input = <<action>>,
                        !.pc = "rejected", !.error = ZodError]
    ELSE LET body == WithId(action, Uuid(1))
         IN  [FcIdle EXCEPT !.op = "create", !.input = <<action>>,
                  !.pc = "awaiting", !.calls = 1,
                  !.request = [kind |-> "index", id |-> body.id.s,
                               index |-> getIndexName(pattern, action),
                               body |-> body, refresh |-> TRUE]]

RECURSIVE BulkLoopSkipsInvalid(_, _, _, _)
\* A createMany loop that lets the valid actions through and drops the
\* invalid ones instead of failing the call.
BulkLoopSkipsInvalid(pattern, actions, k, acc) ==
    IF k > Len(actions) THEN acc
    ELSE IF ~SchemaParse(actions[k])
        THEN BulkLoopSkipsInvalid(pattern, actions, k + 1, acc)
    ELSE LET body == WithId(actions[k], Uuid(k))
         IN  BulkLoopSkipsInvalid(pattern, actions, k + 1,
                [acc EXCEPT
                    !.bulk = @ \o << [index |-> getIndexName(pattern, actions[k]),
                                      id |-> body.id.s, doc |-> body] >>,
                    !.dbActions = @ \o <<body>>])

RECURSIVE BulkLoop(_, _, _, _)
\* The forEach of createMany over actions[k..]: every action is validated
\* (the first invalid one throws and ends the loop), given an id and pushed
\* to the bulk body and to the list of created actions.
BulkLoop(pattern, actions, k, acc) ==
    IF k > Len(actions) THEN acc
    ELSE IF ~SchemaParse(actions[k]) THEN [acc EXCEPT !.threw = TRUE]
    ELSE LET body == WithId(actions[k], Uuid(k))
         IN  BulkLoop(pattern, actions, k + 1,
                [acc EXCEPT
                    !.bulk = @ \o << [index |-> getIndexName(pattern, actions[k]),
                                      id |-> body.id.s, doc |-> body] >>,
                    !.dbActions = @ \o <<body>>])

\* createMany(actions) up to its await: one bulk call after the loop, or a
\* rejection with the schema error when the loop threw.
CreateManyStart(pattern, actions) ==
    LET loop == BulkLoop(pattern, actions, 1,
                         [threw |-> FALSE, bulk |-> <<>>, dbActions |-> <<>>])
    IN  IF loop.threw
        THEN [FcIdle EXCEPT !.op = "createMany", !.input = actions,
                            !.pc = "rejected", !.error = ZodError]
        ELSE [FcIdle EXCEPT !.op = "createMany", !.input = actions,
                  !.pc = "awaiting", !.calls = 1,
                  !.request = [kind |-> "bulk", body |-> loop.bulk,
                               dbActions |-> loop.dbActions]]

\* options.x || fallback for a number option.
OrDefault(x, fallback) == IF IsTruthy(x) THEN x.v ELSE fallback

\* findMany(options, filters) up to its await: one search call over the
\* read indices of the range, with the compiled clauses, the page window
\* and the sort.
FindManyStart(pattern, options, filters, now1, now2) ==
    [FcIdle EXCEPT !.op = "findMany", !.input = <<options, filters>>,
        !.pc = "awaiting", !.calls = 1,
        !.request =
            [kind |-> "search",
             must |-> buildFindManyQuery(filters, DefaultStartMonthsAgo, now1, now2),
             index |-> getIndexNameRange(pattern, DefaultStartMonthsAgo,
                            filters.companyId, filters.start, filters.end, now1, now2),
             from |-> (OrDefault(options.page, 1) - 1)
                        * OrDefault(options.limit, DefaultPageSize),
             size |-> OrDefault(options.limit, DefaultPageSize),
             sortBy |-> IF Truthy(options.sortBy) THEN options.sortBy.s ELSE "timestamp",
             order |-> IF Truthy(options.sortDirection) THEN options.sortDirection.s
                       ELSE "desc",
             ignore_unavailable |-> TRUE]]

\* The facade call after its client call succeeded: create resolves with
\* the body it sent, createMany with the list of created actions, findMany
\* with the _source of every hit.
FacadeOnSuccess(f, hits) ==
    [f EXCEPT !.pc = "resolved",
              !.result = CASE f.op = "create" -> <<f.request.body>>
                           [] f.op = "createMany" -> f.request.dbActions
                           [] OTHER -> hits]

\* A facade call that sends its client call again after an error.
FacadeOnErrorRetries(f, err) ==
    IF f.calls < 2 THEN [f EXCEPT !.calls = @ + 1]
    ELSE [f EXCEPT !.pc = "rejected", !.error = err]

\* The facade call after its client call was rejected with err: the error
\* is logged and the call is rejected with it.
FacadeOnError(f, err) == [f EXCEPT !.pc = "rejected", !.error = err]

\* A caller calls create(action).
CallCreate(actionSet) ==
    /\ eng.pc = "constructed"
    /\ fc.pc = "idle"
    /\ \E action \in actionSet : fc' = CreateStart(DefaultIndexPattern, action)
    /\ UNCHANGED <<rt, cd, qr, eng, tpl, mp>>

\* A caller calls createMany(actions).
CallCreateMany(batchSet) ==
    /\ eng.pc = "constructed"
    /\ fc.pc = "idle"
    /\ \E actions \in batchSet : fc' = CreateManyStart(DefaultIndexPattern, actions)
    /\ UNCHANGED <<rt, cd, qr, eng, tpl, mp>>

\* The documents a search may hit.
SearchHits == { <<>>, <<ValidWithId>>, <<ValidWithId, ValidNoId>> }

\* A caller calls findMany(options, filters).
CallFindMany(inputSet) ==
    /\ eng.pc = "constructed"
    /\ fc.pc = "idle"
    /\ \E in \in inputSet :
        fc' = FindManyStart(DefaultIndexPattern, in.options, in.filters,
                            in.now, in.now)
    /\ UNCHANGED <<rt, cd, qr, eng, tpl, mp>>

\* The client fulfils the index / bulk / search call of the facade call; a
\* bulk call is fulfilled also when the backend could not index some of its
\* items, which its body then lists.
ClientCallSucceeds ==
    /\ fc.pc = "awaiting"
    /\ \E hits \in (IF fc.op = "findMany" THEN SearchHits ELSE {<<>>}),
          failed \in (IF fc.op = "createMany"
                      THEN SUBSET DOMAIN fc.request.dbActions ELSE {{}}) :
        fc' = [FacadeOnSuccess(fc, hits) EXCEPT !.response = Fulfilled,
                                                !.failed = failed]
    /\ UNCHANGED <<rt, cd, qr, eng, tpl, mp>>

\* The client rejects the index / bulk / search call of the facade call.
ClientCallFails ==
    /\ fc.pc = "awaiting"
    /\ \E err \in ClientErrors :
        fc' = [FacadeOnError(fc, err) EXCEPT !.response = Rejected(err)]
    /\ UNCHANGED <<rt, cd, qr, eng, tpl, mp>>

(***************************************************************************)
(* Document codec (utils.ts; engine.ts serialize, deserialize)             *)
(***************************************************************************)

\* The values handled here are trees: no value holds a reference to one of
\* its ancestors, and no string holds a quote or a backslash.

\* Object.entries(x) of an object.
Entries(x) == IF x.t = "object" THEN x.v ELSE <<>>

\* {...x, [key]: val}, and x[key] = val: a key x already has keeps its
\* place, a new key goes last.
SetKey(x, key, val) ==
    IF HasKey(x, key)
    THEN Obj([i \in DOMAIN x.v |-> IF x.v[i].k = key THEN P(key, val) ELSE x.v[i]])
    ELSE Obj(x.v \o <<P(key, val)>>)

RECURSIVE JsonText(_)
\* The text JSON.stringify writes for a value other than undefined: inside
\* an array undefined is written null, inside an object a property whose
\* value is undefined is left out.
JsonText(x) ==
    CASE x.t = "string" -> "\"" \o x.v \o "\""
      [] x.t = "number" -> ToString(x.v)
      [] x.t = "boolean" -> (IF x.v THEN "true" ELSE "false")
      [] x.t = "array" ->
            "[" \o Join([i \in DOMAIN x.v |->
                            IF x.v[i].t = "undefined" THEN "null"
                            ELSE JsonText(x.v[i])], ",") \o "]"
      [] x.t = "object" ->
            LET kept == SelectSeq(x.v, LAMBDA p : p.v.t # "undefined")
            IN  "{" \o Join([i \in DOMAIN kept |->
                                "\"" \o kept[i].k \o "\":" \o JsonText(kept[i].v)],
                            ",") \o "}"
      [] OTHER -> "null"

\* JSON.stringify(x): undefined for undefined, the JSON text otherwise.
JSONStringify(x) == IF x.t = "undefined" THEN Undefined ELSE Str(JsonText(x))

RECURSIVE removeSensitiveKeys(_, _)
RECURSIVE SanitizeFrom(_, _, _, _)

\* The reduce of removeSensitiveKeys over the keys i.. of an object: a key
\* of the list is left out, any other is copied with its value sanitized.
SanitizeFrom(object, keys, i, sanitized) ==
    IF i > Len(object.v) THEN sanitized
    ELSE IF object.v[i].k \in Range(keys)
        THEN SanitizeFrom(object, keys, i + 1, sanitized)
    ELSE SanitizeFrom(object, keys, i + 1,
            SetKey(sanitized, object.v[i].k,
                   removeSensitiveKeys(object.v[i].v, keys)))

\* removeSensitiveKeys(object, keys) on a tree: primitives and null are
\* returned, arrays mapped, objects rebuilt key by key.
removeSensitiveKeys(object, keys) ==
    IF TypeOf(object) # "object" \/ object.t = "null" THEN object
    ELSE IF IsArray(object)
        THEN Arr([i \in DOMAIN object.v |-> removeSensitiveKeys(object.v[i], keys)])
    ELSE SanitizeFrom(object, keys, 1, Obj(<<>>))

breakCircularReferences(object) == removeSensitiveKeys(object, <<>>)

\* typeof value === "string" ? value : JSON.stringify(breakCircularReferences(value))
StringOrJson(value) ==
    IF value.t = "string" THEN value
    ELSE JSONStringify(breakCircularReferences(value))

\* transformObjectToArray(obj): one {key, value} entry per property, in
\* order; undefined for a falsy obj.
transformObjectToArray(obj) ==
    IF ~IsTruthy(obj) THEN Undefined
    ELSE Arr([i \in DOMAIN Entries(obj) |->
                Obj(<<P("key", Str(Entries(obj)[i].k)),
                      P("value", StringOrJson(Entries(obj)[i].v))>>)])

RECURSIVE ReduceToObject(_, _, _)
\* arr.reduce((obj, item) => { obj[item.key] = item.value; return obj }, obj)
ReduceToObject(items, i, obj) ==
    IF i > Len(items) THEN obj
    ELSE ReduceToObject(items, i + 1,
            SetKey(obj, Get(items[i], "key").v, Get(items[i], "value")))

\* transformArrayToObject(arr): the later of two entries with one key wins.
transformArrayToObject(arr) ==
    IF ~IsTruthy(arr) THEN Undefined
    ELSE ReduceToObject(arr.v, 1, Obj(<<>>))

\* x?.map(item => ({...item, meta: F(item.meta)}))
MapMeta(x, F(_)) ==
    IF x.t \in {"undefined", "null"} THEN Undefined
    ELSE Arr([i \in DOMAIN x.v |-> SetKey(x.v[i], "meta", F(Get(x.v[i], "meta")))])

\* The entries serialize makes of one property of the request: one per
\* child for a plain object, each child that is no string carrying the JSON
\* text of the object it is in; one for any other value.
RequestEntries(key, value) ==
    IF value.t = "object"
    THEN [i \in DOMAIN Entries(value) |->
            Obj(<<P("key", Str(Entries(value)[i].k)),
                  P("parent", Str(key)),
                  P("value", IF Entries(value)[i].v.t = "string"
                             THEN Entries(value)[i].v
                             ELSE JSONStringify(breakCircularReferences(value)))>>)]
    ELSE << Obj(<<P("key", Str(key)), P("value", StringOrJson(value))>>) >>

RECURSIVE FlatMapRequest(_, _)
FlatMapRequest(entries, i) ==
    IF i > Len(entries) THEN <<>>
    ELSE RequestEntries(entries[i].k, entries[i].v) \o FlatMapRequest(entries, i + 1)

\* serialize: action.request flattened, the entries with a falsy value
\* filtered out.
SerializeRequest(request) ==
    IF ~IsTruthy(request) THEN Undefined
    ELSE Arr(SelectSeq(FlatMapRequest(Entries(request), 1),
                       LAMBDA e : IsTruthy(Get(e, "value"))))

\* serialize: before / after of a change.
SerializeDelta(x) == IF IsTruthy(x) THEN StringOrJson(x) ELSE Undefined

SerializeChange(change) ==
    SetKey(SetKey(SetKey(change,
        "before", SerializeDelta(Get(change, "before"))),
        "after", SerializeDelta(Get(change, "after"))),
        "meta", transformObjectToArray(Get(change, "meta")))

\* serialize(action): the Action as the document the index stores.
serialize(action) ==
    LET agents == MapMeta(Get(action, "agents"), transformObjectToArray)
        targets == MapMeta(Get(action, "targets"), transformObjectToArray)
        request == SerializeRequest(Get(action, "request"))
        resp == Get(action, "response")
        response ==
            IF IsTruthy(resp)
            THEN SetKey(SetKey(resp,
                    "body", transformObjectToArray(Get(resp, "body"))),
                    "headers", transformObjectToArray(Get(resp, "headers")))
            ELSE Undefined
        ch == Get(action, "changes")
        changes ==
            IF ch.t \in {"undefined", "null"} THEN Undefined
            ELSE Arr([i \in DOMAIN ch.v |-> SerializeChange(ch.v[i])])
        cost ==
            IF IsTruthy(Get(action, "cost"))
            THEN SetKey(Get(action, "cost"), "meta",
                        transformObjectToArray(Get(Get(action, "cost"), "meta")))
            ELSE Undefined
        meta == transformObjectToArray(Get(action, "meta"))
    IN  SetKey(SetKey(SetKey(SetKey(SetKey(SetKey(SetKey(action,
            "agents", agents), "targets", targets), "request", request),
            "response", response), "changes", changes), "cost", cost),
            "meta", meta)

RECURSIVE ReduceRequest(_, _, _)
\* deserialize: the reduce over the request entries; an entry with a falsy
\* parent is a top-level property, any other a property of obj[parent].
ReduceRequest(items, i, obj) ==
    IF i > Len(items) THEN obj
    ELSE LET item == items[i]
             key == Get(item, "key").v
             parent == Get(item, "parent")
         IN  IF ~IsTruthy(parent)
             THEN ReduceRequest(items, i + 1, SetKey(obj, key, Get(item, "value")))
             ELSE LET held == IF IsTruthy(Get(obj, parent.v))
                              THEN Get(obj, parent.v) ELSE Obj(<<>>)
                  IN  ReduceRequest(items, i + 1,
                        SetKey(obj, parent.v, SetKey(held, key, Get(item, "value"))))

\* deserialize(action): the stored document as an Action.
deserialize(doc) ==
    LET agents == MapMeta(Get(doc, "agents"), transformArrayToObject)
        targets == MapMeta(Get(doc, "targets"), transformArrayToObject)
        req == Get(doc, "request")
        request ==
            IF req.t \in {"undefined", "null"} THEN Undefined
            ELSE ReduceRequest(req.v, 1, Obj(<<>>))
        resp == Get(doc, "response")
        withBody ==
            IF IsTruthy(Get(resp, "body"))
            THEN SetKey(resp, "body", transformArrayToObject(Get(resp, "body")))
            ELSE resp
        response ==
            IF ~IsTruthy(resp) THEN Undefined
            ELSE IF IsTruthy(Get(resp, "headers"))
                THEN SetKey(withBody, "headers",
                            transformArrayToObject(Get(resp, "headers")))
            ELSE withBody
        cost ==
            IF IsTruthy(Get(doc, "cost"))
            THEN SetKey(Get(doc, "cost"), "meta",
                        transformArrayToObject(Get(Get(doc, "cost"), "meta")))
            ELSE Undefined
        changes == MapMeta(Get(doc, "changes"), transformArrayToObject)
        meta == transformArrayToObject(Get(doc, "meta"))
    IN  SetKey(SetKey(SetKey(SetKey(SetKey(SetKey(SetKey(doc,
            "agents", agents), "targets", targets), "request", request),
            "response", response), "cost", cost), "changes", changes),
            "meta", meta)

\* obj with obj[key] = val unless val is undefined: how a literal is
\* written with an optional property.
WithOptional(x, key, val) == IF val.t = "undefined" THEN x ELSE SetKey(x, key, val)

MaxRounds == 2

SampleMetas ==
    { Undefined,
      Obj(<<>>),
      Obj(<<P("plan", Str("pro"))>>),
      Obj(<<P("plan", Str("pro")), P("seats", Num(5))>>),
      Obj(<<P("flags", Obj(<<P("beta", Bool(TRUE))>>))>>),
      Obj(<<P("tags", Arr(<<Str("a"), Num(1)>>)), P("note", Str(""))>>),
      Obj(<<P("ref", Null)>>) }

SampleAgentMetas ==
    { Undefined, Obj(<<P("role", Str("admin"))>>), Obj(<<P("level", Num(3))>>) }

SampleRequests ==
    { Undefined,
      Obj(<<>>),
      Obj(<<P("method", Str("GET"))>>),
      Obj(<<P("q", Str(""))>>),
      Obj(<<P("page", Num(0)), P("dryRun", Bool(FALSE))>>),
      Obj(<<P("method", Str("POST")),
            P("body", Obj(<<P("transactionId", Str("tx1"))>>))>>),
      Obj(<<P("body", Obj(<<P("name", Str("x")), P("amount", Num(2222))>>))>>),
      Obj(<<P("ids", Arr(<<Num(1), Num(2)>>))>>) }

SampleResponses ==
    { Undefined,
      Obj(<<P("status", Str("200"))>>),
      Obj(<<P("status", Str("200")), P("time", Num(12)),
            P("body", Obj(<<P("ok", Bool(TRUE))>>)),
            P("headers", Obj(<<P("etag", Str("abc"))>>))>>) }

SampleChanges ==
    { Undefined,
      Arr(<< Obj(<<P("model", Str("user")), P("operation", Str("update")),
                   P("before", Str("a")), P("after", Str("b"))>>) >>),
      Arr(<< Obj(<<P("model", Str("user")), P("operation", Str("create")),
                   P("after", Obj(<<P("age", Num(3))>>)),
                   P("meta", Obj(<<P("source", Str("api"))>>))>>) >>) }

\* An Action as a caller writes it.
MakeAction(agentMeta, request, response, changes, meta) ==
    WithOptional(WithOptional(WithOptional(WithOptional(
        Obj(<<P("timestamp", Str("2024-01-01T00:00:00.000Z")),
              P("action", Obj(<<P("type", Str("HTTP")), P("verb", Str("GET"))>>)),
              P("agents", Arr(<< WithOptional(Obj(<<P("type", Str("USER"))>>),
                                              "meta", agentMeta) >>))>>),
        "request", request), "response", response), "changes", changes),
        "meta", meta)

\* Actions with targets and a cost, with a metadata value that is undefined,
\* and with the request of the test template (a nested object, one of whose
\* children is undefined).
SampleOtherActions ==
    { SetKey(SetKey(MakeAction(Undefined, Undefined, Undefined, Undefined, Undefined),
        "targets", Arr(<< Obj(<<P("type", Str("order")), P("id", Str("o1")),
                                P("meta", Obj(<<P("note", Str("x")),
                                                P("total", Num(10))>>))>> )>>)),
        "cost", Obj(<<P("amount", Num(1)),
                      P("meta", Obj(<<P("model", Str("m")),
                                      P("cached", Bool(FALSE))>>))>>)),
      MakeAction(Undefined, Undefined, Undefined, Undefined,
                 Obj(<<P("plan", Str("pro")), P("gone", Undefined)>>)),
      MakeAction(Undefined,
                 Obj(<<P("method", Str("GET")),
                       P("body", Obj(<<P("data", Obj(<<P("mock", Bool(TRUE))>>)),
                                       P("test", Undefined),
                                       P("number", Num(2222)),
                                       P("array", Arr(<<>>)),
                                       P("transactionId", Str("transaction_123"))>>))>>),
                 Undefined, Undefined, Undefined) }

CodecActions ==
    { MakeAction(am, rq, rs, ch, mt) :
        am \in SampleAgentMetas, rq \in SampleRequests, rs \in SampleResponses,
        ch \in SampleChanges, mt \in SampleMetas }
    \cup SampleOtherActions

CdIdle ==
    [pc |-> "idle", round |-> 0, input |-> Undefined, action |-> Undefined,
     doc |-> Undefined, first |-> Undefined]

\* serialize(action) is called, on a fresh Action or on the Action the
\* last deserialize returned.
CallSerialize ==
    /\ cd.pc \in {"idle", "deserialized"}
    /\ cd.round < MaxRounds
    /\ \E a \in (IF cd.pc = "idle" THEN CodecActions ELSE {cd.action}) :
        cd' = [cd EXCEPT !.pc = "serialized", !.round = @ + 1,
                         !.input = IF cd.pc = "idle" THEN a ELSE @,
                         !.action = a, !.doc = serialize(a)]
    /\ UNCHANGED <<rt, qr, eng, tpl, mp, fc>>

\* deserialize(doc) is called on the document of the last serialize.
CallDeserialize ==
    /\ cd.pc = "serialized"
    /\ cd' = [cd EXCEPT !.pc = "deserialized", !.action = deserialize(cd.doc),
                        !.first = IF cd.round = 1 THEN deserialize(cd.doc) ELSE @]
    /\ UNCHANGED <<rt, qr, eng, tpl, mp, fc>>

MaxFilterKeys == 2

\* Filters other than companyId, start and end, each as a property.
FilterSamples ==
    { P("id", Str("a1")),
      P("id", Arr(<<Str("a1"), Str("a2")>>)),
      P("sessionId", Str("")),
      P("framework", Arr(<< Obj(<<P("name", Str("apollo"))>>),
                            Obj(<<P("name", Str("express")),
                                  P("version", Str("5.0.0"))>>) >>)),
      P("action", Obj(<<P("verb", Str("POST")), P("type", Str("HTTP"))>>)),
      P("agents", Obj(<<P("type", Str("USER")),
                        P("meta", Obj(<<P("clerkUserId", Str("clk1")),
                                        P("plan", Str("pro"))>>))>>)),
      P("targets", Obj(<<P("id", Str("transaction_123"))>>)),
      P("request", Obj(<<P("method", Str("GET")),
                         P("body", Obj(<<P("transactionId", Str("tx1"))>>))>>)),
      P("response", Obj(<<P("status", Arr(<<Str("200"), Str("201")>>)),
                          P("time", Obj(<<P("gte", Num(100))>>)),
                          P("body", Obj(<<P("ok", Str("true"))>>))>>)),
      P("changes", Obj(<<P("model", Str("user")),
                         P("meta", Obj(<<P("source", Str("api"))>>))>>)),
      P("meta", Obj(<<P("tenant", Str("t1")), P("region", Str("eu"))>>)),
      P("meta", Arr(<< Obj(<<P("tenant", Str("t1"))>>),
                       Obj(<<P("tenant", Str("t2"))>>) >>)) }

\* The number of properties of ShapeSamples given together.
MaxShapeKeys == 1

\* Further filters: every filter as one candidate with one sub-field, as one
\* candidate with several, as a list of candidates (one of them empty for
\* framework and meta), and a free-text query.
ShapeSamples ==
    FilterSamples \cup
    { P("app", Str("web")),
      P("query", Str("abc123")),
      P("framework", Obj(<<P("name", Str("apollo"))>>)),
      P("framework", Arr(<< Obj(<<P("name", Str("apollo"))>>), Obj(<<>>) >>)),
      P("action", Obj(<<P("object", Str("/v1/transactions"))>>)),
      P("action", Arr(<< Obj(<<P("type", Str("HTTP")), P("verb", Str("POST"))>>),
                         Obj(<<P("type", Str("GRAPHQL"))>>) >>)),
      P("agents", Obj(<<P("meta", Obj(<<P("clerkUserId", Str("clk1"))>>))>>)),
      P("agents", Arr(<< Obj(<<P("type", Str("USER")), P("id", Str("user_123"))>>),
                         Obj(<<P("type", Str("USER")),
                               P("meta", Obj(<<P("clerkUserId", Str("clk1"))>>))>>) >>)),
      P("targets", Arr(<< Obj(<<P("id", Str("transaction_123"))>>),
                          Obj(<<P("type", Str("transaction")),
                                P("name", Str("refund"))>>) >>)),
      P("request", Obj(<<P("method", Str("GET"))>>)),
      P("request", Arr(<< Obj(<<P("method", Str("GET"))>>),
                          Obj(<<P("body", Obj(<<P("from", Str("a1")),
                                                P("to", Str("a2"))>>))>>) >>)),
      P("response", Obj(<<P("status", Str("200"))>>)),
      P("response", Obj(<<P("body", Arr(<< Obj(<<P("ok", Str("true"))>>),
                                           Obj(<<P("code", Str("7")),
                                                 P("kind", Str("soft"))>>) >>)),
                          P("headers", Obj(<<P("etag", Str("e1")),
                                             P("via", Str("proxy"))>>))>>)),
      P("response", Obj(<<P("time", Obj(<<P("gte", Num(100)), P("lt", Num(200))>>)),
                          P("headers", Arr(<< Obj(<<P("etag", Str("e1"))>>),
                                              Obj(<<P("etag", Str("e2"))>>) >>))>>)),
      P("changes", Arr(<< Obj(<<P("model", Str("user")),
                                P("operation", Str("update"))>>),
                          Obj(<<P("model", Str("team")),
                                P("meta", Obj(<<P("source", Str("api")),
                                                P("batch", Str("b1"))>>))>>) >>)),
      P("meta", Obj(<<P("tenant", Str("t1"))>>)),
      P("meta", Arr(<< Obj(<<P("tenant", Str("t1")), P("region", Str("eu"))>>),
                       Obj(<<P("tenant", Str("t2"))>>) >>)),
      P("meta", Arr(<< Obj(<<P("tenant", Str("t1"))>>), Obj(<<>>) >>)) }

RECURSIVE ObjectsOf(_, _)
\* The objects of at most n of the properties of a set, in every key order.
ObjectsOf(samples, n) ==
    IF n = 0 THEN {Obj(<<>>)}
    ELSE ObjectsOf(samples, n - 1) \cup
         { SetKey(r, s.k, s.v) :
             r \in { q \in ObjectsOf(samples, n - 1) : Len(q.v) = n - 1 },
             s \in samples }

\* The objects of at most n of the sample properties, in every key order.
FilterObjects(n) == ObjectsOf(FilterSamples, n)

\* start and end as given to buildFindManyQuery: omitted, or an ISO string
\* of the middle of a window month with any of the sample offsets.
QueryStarts ==
    { i \in ValidIsoStrings :
        /\ [y |-> i.y, m |-> i.m] = WindowMonth(0)
        /\ i.d = 15 /\ i.h = 0 }

QueryEnds ==
    { i \in ValidIsoStrings :
        /\ [y |-> i.y, m |-> i.m] = WindowMonth(1)
        /\ i.d = 15 /\ i.h = 12 /\ i.off \in {0, MaxOffsetHours} }

\* Two successive readings of the clock, within one window month.
ClockPairs ==
    { p \in ClockReadings \X ClockReadings :
        /\ [y |-> p[1].y, m |-> p[1].m] = WindowMonth(1)
        /\ [y |-> p[2].y, m |-> p[2].m] = WindowMonth(1)
        /\ Ord(p[1]) <= Ord(p[2]) }

QueryTimes ==
    { [start |-> s, end |-> e, now1 |-> UnreadClock, now2 |-> UnreadClock] :
        s \in QueryStarts, e \in QueryEnds }
    \cup { [start |-> NoIso, end |-> NoIso, now1 |-> p[1], now2 |-> p[2]] :
            p \in ClockPairs }
    \cup { [start |-> s, end |-> NoIso, now1 |-> UnreadClock, now2 |-> n] :
            s \in QueryStarts, n \in {CHOOSE c \in ClockReadings : TRUE} }
    \cup { [start |-> NoIso, end |-> e, now1 |-> n, now2 |-> UnreadClock] :
            e \in QueryEnds, n \in {CHOOSE c \in ClockReadings : TRUE} }

NoFilters == [companyId |-> "", start |-> NoIso, end |-> NoIso, rest |-> Obj(<<>>)]

\* The start and end given with the filters of ShapeSamples.
ShapeTime ==
    CHOOSE t \in QueryTimes : t.start.given /\ t.end.given /\ t.start.off = 0

\* The (time, filters) inputs of buildFindManyQuery: every time with every
\* object of up to MaxFilterKeys of FilterSamples, one time with every
\* object of up to MaxShapeKeys of ShapeSamples.
\* Scalar-set filters, given several at a time.
ScalarSamples ==
    { P("id", Str("a1")), P("app", Str("web")), P("environment", Str("prod")),
      P("traceIds", Arr(<<Str("t1"), Str("t2")>>)) }

QueryInputs ==
    { [t |-> t, r |-> r] : t \in QueryTimes, r \in FilterObjects(MaxFilterKeys) }
    \cup { [t |-> ShapeTime, r |-> r] : r \in ObjectsOf(ShapeSamples, MaxShapeKeys) }
    \cup { [t |-> ShapeTime, r |-> r] : r \in ObjectsOf(ScalarSamples, MaxFilterKeys) }

QrIdle ==
    [op |-> "none", filters |-> NoFilters, now1 |-> UnreadClock,
     now2 |-> UnreadClock, must |-> <<>>]

\* A caller calls buildFindManyQuery(options, filters).
CallBuildFindManyQuery ==
    /\ qr.op = "none"
    /\ \E c \in CompanyIds, in \in QueryInputs :
        LET t == in.t
            filters == [companyId |-> c, start |-> t.start, end |-> t.end, rest |-> in.r]
        IN  qr' = [op |-> "buildFindManyQuery", filters |-> filters,
                   now1 |-> t.now1, now2 |-> t.now2,
                   must |-> buildFindManyQuery(filters, DefaultStartMonthsAgo,
                                               t.now1, t.now2)]
    /\ UNCHANGED <<rt, cd, eng, tpl, mp, fc>>

(***************************************************************************)
(* Object graphs (utils.ts removeSensitiveKeys on values with identity)    *)
(***************************************************************************)

\* An object graph: nodes[n] is the object or array with identity n, its
\* slots the properties (of an array: the elements, in order) as P(k, v),
\* v a primitive or Ref(m), a reference to node m.  Node 1 is the value
\* handed to the function.
Ref(n) == [t |-> "ref", v |-> n]

IsRef(v) == v.t = "ref"

\* Array.isArray(v) and typeof v === "object" for a slot value.
IsArrayRef(g, v) == IsRef(v) /\ g[v.v].kind = "array"

IsObjectRef(g, v) == IsRef(v) /\ g[v.v].kind = "object"

\* RangeError: Maximum call stack size exceeded.
RangeError == [t |-> "RangeError"]

\* The copy a call returns, marked with the node it copies.
CopyOf(value, n) == [t |-> value.t, v |-> value.v, of |-> n]

IsCircularSelfUnchecked(child, object, parents) ==
    IsRef(child) /\ child.v \in parents

\* parents?.includes(object[key]) || object[key] === object
IsCircular(child, object, parents) ==
    IsRef(child) /\ (child.v \in parents \/ child.v = object)

RECURSIVE removeSensitiveKeysGraph(_, _, _, _, _)
RECURSIVE SanitizeKeysFrom(_, _, _, _, _, _, _)
RECURSIVE SanitizeElemsFrom(_, _, _, _, _, _, _)

\* The map over the elements i.. of an array; a call that overflows the
\* stack ends the whole evaluation.
SanitizeElemsFrom(g, elems, keys, parents, calls, i, mapped) ==
    IF i > Len(elems) THEN Arr(mapped)
    ELSE LET r == removeSensitiveKeysGraph(g, elems[i], keys, parents, calls)
         IN  IF r = RangeError THEN RangeError
             ELSE SanitizeElemsFrom(g, elems, keys, parents, calls, i + 1,
                                    Append(mapped, r))

\* elems.map(elem => removeSensitiveKeys(elem, keys, parents)) as the copy
\* of array n.
SanitizeElems(g, n, elems, keys, parents, calls) ==
    LET r == SanitizeElemsFrom(g, elems, keys, parents, calls, 1, <<>>)
    IN  IF r = RangeError THEN RangeError ELSE CopyOf(r, n)

\* The reduce over the keys i.. of object n.
SanitizeKeysFrom(g, n, keys, parents, calls, i, sanitized) ==
    IF sanitized = RangeError \/ i > Len(g[n].slots) THEN sanitized
    ELSE LET key == g[n].slots[i].k
             child == g[n].slots[i].v
             inner == parents \cup {n}
             val ==
                IF IsArrayRef(g, child)
                THEN SanitizeElems(g, child.v,
                        SelectSeq([j \in DOMAIN g[child.v].slots |->
                                      g[child.v].slots[j].v],
                                  LAMBDA elem : elem # Ref(n)),
                        keys, inner, calls)
                ELSE IF IsObjectRef(g, child)
                THEN removeSensitiveKeysGraph(g, child, keys, inner, calls)
                ELSE child
         IN  IF key \in Range(keys) \/ IsCircular(child, n, parents)
             THEN SanitizeKeysFrom(g, n, keys, parents, calls, i + 1, sanitized)
             ELSE IF val = RangeError THEN RangeError
             ELSE SanitizeKeysFrom(g, n, keys, parents, calls, i + 1,
                                   SetKey(sanitized, key, val))

\* removeSensitiveKeys(object, keys, parents) on a graph.  calls holds the
\* calls in progress, each by its object and its parents: the function
\* has no state, so a call that is made again inside itself recurses
\* without end until the stack overflows.
removeSensitiveKeysGraph(g, object, keys, parents, calls) ==
    IF ~IsRef(object) THEN object
    ELSE IF <<object.v, parents>> \in calls THEN RangeError
    ELSE LET n == object.v
             inProgress == calls \cup {<<n, parents>>}
         IN  IF g[n].kind = "array"
             THEN SanitizeElems(g, n,
                    [j \in DOMAIN g[n].slots |-> g[n].slots[j].v],
                    keys, parents \cup {n}, inProgress)
             ELSE LET r == SanitizeKeysFrom(g, n, keys, parents, inProgress,
                                            1, Obj(<<>>))
                  IN  IF r = RangeError THEN r ELSE CopyOf(r, n)

\* breakCircularReferences(object) of the value that is node 1 of g.
breakCircularReferencesGraph(g) == removeSensitiveKeysGraph(g, Ref(1), <<>>, {}, {})

\* The longest chain of nested values in a sample graph.
MaxDepth == 3

\* A chain of nodes 1 -> 2 -> ... -> len, each an object {p, next, x} or an
\* array [p, next, x]: p a number, next the following node (but for the
\* last), x a further reference to node extra[n] of the chain (none for 0).
ChainGraph(len, kinds, extra) ==
    [n \in 1..len |->
        [kind |-> kinds[n],
         slots |-> <<P("p", Num(n))>>
                   \o (IF n < len THEN <<P("next", Ref(n + 1))>> ELSE <<>>)
                   \o (IF extra[n] # 0 THEN <<P("x", Ref(extra[n]))>> ELSE <<>>)]]

\* breakCircularReferences(object) is called, on any chain.
CallBreakCircularReferences ==
    /\ cd.pc = "idle"
    /\ \E len \in 1..MaxDepth :
         \E kinds \in [1..len -> {"object", "array"}], extra \in [1..len -> 0..len] :
            LET g == ChainGraph(len, kinds, extra)
            IN  cd' = [pc |-> "normalized", graph |-> g,
                       result |-> breakCircularReferencesGraph(g)]
    /\ UNCHANGED <<rt, qr, eng, tpl, mp, fc>>

\* Values given to deepCompareObjects.
SampleValues ==
    { Undefined, Null, Num(1), Num(2), Str("a"), Str(""), Bool(TRUE),
      Obj(<<>>), Arr(<<>>),
      Obj(<<P("a", Num(1))>>),
      Obj(<<P("a", Num(2))>>),
      Obj(<<P("b", Num(1))>>),
      Obj(<<P("a", Num(1)), P("b", Num(2))>>),
      Obj(<<P("b", Num(2)), P("a", Num(1))>>),
      Obj(<<P("a", Undefined)>>),
      Obj(<<P("a", Null)>>),
      Obj(<<P("0", Num(1))>>),
      Obj(<<P("a", Obj(<<>>))>>),
      Obj(<<P("a", Obj(<<P("b", Num(1))>>))>>),
      Arr(<<Num(1)>>), Arr(<<Num(2)>>), Arr(<<Undefined>>),
      Arr(<<Num(1), Num(2)>>), Arr(<<Num(2), Num(1)>>),
      Arr(<<Obj(<<>>)>>), Arr(<<Obj(<<P("a", Num(1))>>)>>) }

\* deepCompareObjects(a, b) is called.
CallDeepCompareObjects ==
    /\ cd.pc = "idle"
    /\ \E a \in SampleValues, b \in SampleValues :
        cd' = [pc |-> "compared", a |-> a, b |-> b, result |-> deepCompare3(a, b)]
    /\ UNCHANGED <<rt, qr, eng, tpl, mp, fc>>

(***************************************************************************)
(* Specifications                                                          *)
(***************************************************************************)

\* The codec and the compiler before any call.

\* The facade inputs of the life-cycle specification.
LifecycleActions == {ValidNoId, NoVerb}
LifecycleBatches == { <<ValidNoId>>, <<ValidNoId, NoVerb>> }
LifecycleFinds ==
    { [options |-> [page |-> Undefined, limit |-> Undefined, sortBy |-> None,
                    sortDirection |-> None],
       filters |-> [companyId |-> "c1", start |-> Ts(2023, 11, 1),
                    end |-> Ts(2023, 12, 15),
                    rest |-> Obj(<<P("app", Str("web"))>>)],
       now |-> UnreadClock] }

\* The facade inputs of the facade specification.
SampleBatches == UNION { [1..n -> SampleActions] : n \in 0..MaxBatch }
FacadeFinds ==
    { [options |-> [page |-> pg, limit |-> lim, sortBy |-> sb, sortDirection |-> sd],
       filters |-> [companyId |-> "c1", start |-> st, end |-> en,
                    rest |-> Obj(<<P("app", Str("web"))>>)],
       now |-> [y |-> 2024, m |-> 1, d |-> 31, h |-> 12]] :
        pg \in {Undefined, Num(-1), Num(0), Num(1), Num(3)},
        lim \in {Undefined, Num(0), Num(10)},
        sb \in {None, Some("id")}, sd \in {None, Some("asc")},
        st \in {NoIso, Ts(2023, 11, 1)}, en \in {NoIso, Ts(2023, 12, 15)} }

\* Routing alone.
InitRouting ==
    /\ rt = RtIdle /\ cd = CdIdle /\ qr = QrIdle
    /\ eng = EngNew /\ tpl = TplIdle /\ mp = MpIdle /\ fc = FcIdle

NextRouting == CallGetIndexName \/ CallGetIndexNameRange

SpecRouting == InitRouting /\ [][NextRouting]_vars

\* The life cycle of one engine instance: construction, the two background
\* tasks it starts, and one facade call at any moment after construction.
Init ==
    /\ rt = RtIdle /\ cd = CdIdle /\ qr = QrIdle
    /\ eng = EngNew /\ tpl = TplIdle /\ mp = MpIdle /\ fc = FcIdle

Next ==
    \/ Construct
    \/ GetIndexTemplateSettles
    \/ PutIndexTemplateSettles
    \/ CatIndicesSettles
    \/ IndicesGetSettles
    \/ PutMappingSettles
    \/ UpdateIndexMappingsReturns
    \/ CallCreate(LifecycleActions)
    \/ CallCreateMany(LifecycleBatches)
    \/ CallFindMany(LifecycleFinds)
    \/ ClientCallSucceeds
    \/ ClientCallFails

Spec == Init /\ [][Next]_vars

\* The mapping manager alone: construction and the two background tasks.
NextMaintenance ==
    \/ Construct
    \/ GetIndexTemplateSettles
    \/ PutIndexTemplateSettles
    \/ CatIndicesSettles
    \/ IndicesGetSettles
    \/ PutMappingSettles
    \/ UpdateIndexMappingsReturns

SpecMaintenance == Init /\ [][NextMaintenance]_vars

\* The client settles every call it was given, and a task whose awaited
\* promises are settled is resumed.
FairSpecMaintenance ==
    /\ Init /\ [][NextMaintenance]_vars
    /\ WF_vars(GetIndexTemplateSettles)
    /\ WF_vars(PutIndexTemplateSettles)
    /\ WF_vars(CatIndicesSettles)
    /\ WF_vars(IndicesGetSettles)
    /\ WF_vars(PutMappingSettles)
    /\ WF_vars(UpdateIndexMappingsReturns)

\* The facade of an instance built with autoUpdateIndexMappings: false,
\* over the full sample of actions, batches and searches.
InitFacade ==
    /\ rt = RtIdle /\ cd = CdIdle /\ qr = QrIdle
    /\ eng = [pc |-> "constructed", option |-> "false", autoUpdate |-> FALSE]
    /\ tpl = TplIdle /\ mp = MpIdle /\ fc = FcIdle

NextFacade ==
    \/ CallCreate(SampleActions)
    \/ CallCreateMany(SampleBatches)
    \/ CallFindMany(FacadeFinds)
    \/ ClientCallSucceeds
    \/ ClientCallFails

SpecFacade == InitFacade /\ [][NextFacade]_vars

InitCodec ==
    /\ rt = RtIdle /\ cd = CdIdle /\ qr = QrIdle
    /\ eng = EngNew /\ tpl = TplIdle /\ mp = MpIdle /\ fc = FcIdle

NextCodec == CallSerialize \/ CallDeserialize

SpecCodec == InitCodec /\ [][NextCodec]_vars

\* The helpers of utils.ts alone.
InitUtils ==
    /\ rt = RtIdle /\ cd = CdIdle /\ qr = QrIdle
    /\ eng = EngNew /\ tpl = TplIdle /\ mp = MpIdle /\ fc = FcIdle

NextUtils == CallBreakCircularReferences \/ CallDeepCompareObjects

SpecUtils == InitUtils /\ [][NextUtils]_vars

\* The filter compiler alone.
InitQuery ==
    /\ rt = RtIdle /\ cd = CdIdle /\ qr = QrIdle
    /\ eng = EngNew /\ tpl = TplIdle /\ mp = MpIdle /\ fc = FcIdle

NextQuery == CallBuildFindManyQuery

SpecQuery == InitQuery /\ [][NextQuery]_vars

(***************************************************************************)
(* Claims                                                                  *)
(***************************************************************************)

\* C1: read routing covers write routing.  For every company c and every
\* pair of instants start < end given to getIndexNameRange, the write index
\* getIndexName gives to any action of c with start <= timestamp < end is
\* one of the index names getIndexNameRange returned.
C1_ReadCoversWrite ==
    (/\ rt.op = "getIndexNameRange"
     /\ rt.start.given /\ rt.end.given
     /\ Ord(FromISO(rt.start)) < Ord(FromISO(rt.end)))
    => \A ts \in ValidIsoStrings :
          (/\ Ord(FromISO(rt.start)) <= Ord(DateParse(ts))
           /\ Ord(DateParse(ts)) < Ord(FromISO(rt.end)))
          => getIndexName(rt.pattern, [companyId |-> rt.companyId, timestamp |-> ts])
                \in Range(rt.names)


Container == [t |-> "container", v |-> ""]

RECURSIVE Slots(_, _, _, _)
\* The places of a value down to a depth: <<path, leaf>> for every defined
\* value that is not descended into, <<path, Container>> for every object
\* (or array) that is.
Slots(x, path, depth, intoArrays) ==
    IF x.t = "undefined" THEN {}
    ELSE IF depth > 0 /\ (x.t = "object" \/ (intoArrays /\ x.t = "array"))
    THEN {[path |-> path, leaf |-> Container]} \cup
         UNION { Slots(Get(x, Keys(x)[i]), Append(path, Keys(x)[i]),
                       depth - 1, intoArrays) : i \in DOMAIN Keys(x) }
    ELSE {[path |-> path, leaf |-> x]}

\* The places of an object whose properties are leaves, but for its
\* metadata maps, whose keys are places too.
EntitySlots(x, path, maps) ==
    IF x.t # "object" THEN Slots(x, path, 0, FALSE)
    ELSE {[path |-> path, leaf |-> Container]} \cup
         UNION { Slots(Get(x, Keys(x)[i]), Append(path, Keys(x)[i]),
                       IF Keys(x)[i] \in maps THEN 1 ELSE 0, FALSE)
                 : i \in DOMAIN Keys(x) }

\* The places of one field of an Action: the keys of a metadata map, of the
\* request and of one level of its nested objects, and the properties of
\* each agent, target and change.
FieldSlots(field, x) ==
    CASE field \in {"agents", "targets", "changes"} /\ x.t = "array" ->
            {[path |-> <<field>>, leaf |-> Container]} \cup
            UNION { EntitySlots(x.v[i], <<field, ToString(i - 1)>>, {"meta"})
                    : i \in DOMAIN x.v }
      [] field = "response" -> EntitySlots(x, <<field>>, {"body", "headers"})
      [] field = "cost" -> EntitySlots(x, <<field>>, {"meta"})
      [] field = "request" -> Slots(x, <<field>>, 2, FALSE)
      [] field \in {"meta", "action", "framework"} -> Slots(x, <<field>>, 1, FALSE)
      [] OTHER -> Slots(x, <<field>>, 0, FALSE)

ActionSlots(a) ==
    UNION { FieldSlots(Keys(a)[i], Get(a, Keys(a)[i])) : i \in DOMAIN Keys(a) }

\* The path of a value of a metadata map.
IsMetaPath(path) ==
    \/ Len(path) = 2 /\ path[1] = "meta"
    \/ Len(path) = 3 /\ path[1] = "response" /\ path[2] \in {"body", "headers"}
    \/ Len(path) = 3 /\ path[1] = "cost" /\ path[2] = "meta"
    \/ Len(path) = 4 /\ path[1] \in {"agents", "targets", "changes"} /\ path[3] = "meta"

RoundTripKeeps(a, back) ==
    /\ {s.path : s \in ActionSlots(a)} = {s.path : s \in ActionSlots(back)}
    /\ \A s \in ActionSlots(a) :
          /\ s.leaf.t = "string" => s \in ActionSlots(back)
          /\ (IsMetaPath(s.path) /\ s.leaf.t \notin {"string", "container"})
                => [path |-> s.path, leaf |-> JSONStringify(s.leaf)] \in ActionSlots(back)

\* C2: round trip.  For every sample Action (metadata maps with unique
\* keys, a request of top-level scalars and one level of nested objects),
\* deserialize(serialize(a)) has the keys of a and every string leaf of a,
\* every non-string metadata leaf comes back as its JSON text, and a second
\* serialize-then-deserialize returns what the first one returned.
C2_RoundTrip ==
    cd.pc = "deserialized" =>
        /\ cd.round = 1 => RoundTripKeeps(cd.input, cd.action)
        /\ cd.round = 2 => ActionSlots(cd.action) = ActionSlots(cd.first)

\* C3: validation precedes the network.  In create and in createMany, when
\* the action (or any item of the batch, at any position) fails schema
\* validation, the call is rejected with the schema error and no index or
\* bulk call is issued; a client call is issued only for all-valid input.
C3_ValidationBeforeNetwork ==
    fc.op \in {"create", "createMany"} =>
        /\ (\E k \in DOMAIN fc.input : ~SchemaParse(fc.input[k]))
              => /\ fc.pc = "rejected" /\ fc.error = ZodError
                 /\ fc.calls = 0 /\ fc.request = NoRequest
                 /\ ~fc.response.settled
        /\ fc.calls > 0 => \A k \in DOMAIN fc.input : SchemaParse(fc.input[k])

\* C3 witness: a batch whose first item is valid and whose last is not was
\* rejected with nothing sent.
C3_Witness ==
    /\ fc.op = "createMany" /\ Len(fc.input) = 2
    /\ SchemaParse(fc.input[1]) /\ ~SchemaParse(fc.input[2])
    /\ fc.pc = "rejected" /\ fc.calls = 0

\* C4: transport errors propagate without retry.  Whenever the client
\* rejected the index, bulk or search call, the facade call is rejected with
\* that same error and the client call was issued exactly once.
C4_TransportErrorPropagates ==
    (fc.response.settled /\ ~fc.response.ok) =>
        /\ fc.pc = "rejected"
        /\ fc.error = fc.response.err
        /\ fc.calls = 1

\* C4 witness: each of the three operations was rejected by a client error.
C4_Witness ==
    /\ fc.op = "findMany" /\ fc.pc = "rejected"
    /\ fc.response = Rejected("ResponseError_500") /\ fc.error = "ResponseError_500"

AllTasks == {tpl} \cup { mp.task[i] : i \in IndexUniverse }

\* C5: maintenance errors are swallowed.  Whatever calls of the template and
\* mapping tasks fail, neither task (nor any per-index task) is ever
\* rejected and each completes as resolved; a facade call settles as soon as
\* its own client call has, resolves when that call succeeded, and is
\* rejected only by the schema error of its own input or by the error of its
\* own client call, whatever state the maintenance tasks are in.
C5_MaintenanceErrorsSwallowed ==
    /\ \A k \in AllTasks : k.outcome # "rejected" /\ (k.pc = "done" => k.outcome = "resolved")
    /\ mp.outcome # "rejected" /\ (mp.pc = "done" => mp.outcome = "resolved")
    /\ fc.response.settled => fc.pc \in {"resolved", "rejected"}
    /\ fc.pc = "rejected" =>
          \/ fc.error = ZodError /\ ~fc.response.settled
          \/ fc.response = Rejected(fc.error)
    /\ fc.pc = "resolved" => fc.response = Fulfilled

\* C5 witness: every maintenance call failed (getIndexTemplate,
\* putIndexTemplate, indices.get and putMapping of an index), both tasks
\* completed, and a create call resolved.
C5_Witness ==
    /\ tpl.pc = "done" /\ tpl.fetched = "failed" /\ tpl.putResult = "failed"
    /\ mp.pc = "done"
    /\ \E i \in mp.indices : mp.task[i].fetched = "failed" /\ mp.task[i].putResult = "failed"
    /\ fc.op = "create" /\ fc.pc = "resolved"

\* C6 as stated: a template that is present but differs from the declared
\* schema is left untouched, putIndexTemplate being issued only when the
\* template is absent.
C6_NoTemplateRewrite ==
    /\ tpl.fetched = "differ" => tpl.puts = 0
    /\ tpl.puts > 0 => tpl.fetched \in {"absent", "failed"}

\* C6 amended: upsertIndexTemplates issues putIndexTemplate exactly once
\* when the fetch of the template failed, when no template mapping was
\* found, and also when the fetched mapping differs from the declared
\* schema; it issues none only when the fetched mapping equals the schema.
C6_TemplateRewrittenUnlessEqual ==
    /\ tpl.fetched \in {"failed", "absent", "differ"} => tpl.puts = 1
    /\ tpl.fetched \in {"none", "equal"} => tpl.puts = 0
    /\ tpl.gets <= 1

\* C6 witness: a differing template was fetched and putIndexTemplate issued.
C6_Witness == tpl.fetched = "differ" /\ tpl.puts = 1 /\ tpl.pc = "awaitPut"

\* C7: mapping reconciliation.  For each index processed by
\* updateIndexMapping, one putMapping call with the declared schema is
\* issued when the fetched mapping structurally differs from the declared
\* schema, none when the fetched mapping equals it.
C7_MappingReconciliation ==
    \A i \in IndexUniverse :
        /\ mp.task[i].fetched = "differ" =>
              /\ mp.task[i].puts = 1
              /\ Get(mp.task[i].body, "properties") = INDEX_MAPPING
        /\ mp.task[i].fetched = "equal" => mp.task[i].puts = 0 /\ mp.task[i].pc = "done"

\* C7 witness: of two indices, one differed and was updated, one was equal
\* and was not.
C7_Witness ==
    \E i, j \in mp.indices :
        /\ mp.task[i].fetched = "differ" /\ mp.task[i].puts = 1
        /\ mp.task[i].putResult = "ok"
        /\ mp.task[j].fetched = "equal" /\ mp.task[j].puts = 0

NoMaintenanceCall ==
    /\ tpl.gets = 0 /\ tpl.puts = 0 /\ mp.cats = 0
    /\ \A i \in IndexUniverse : mp.task[i].gets = 0 /\ mp.task[i].puts = 0

\* C8: construction is fire-and-forget.  With autoUpdateIndexMappings on
\* (the default), the constructor starts upsertIndexTemplates and
\* updateIndexMappings exactly once each and returns while both are still
\* pending; afterwards neither task changes the instance, however it ends;
\* with autoUpdateIndexMappings false no template or mapping call is issued.
C8_FireAndForget ==
    /\ [](eng.pc = "new" => tpl.started = 0 /\ mp.started = 0 /\ NoMaintenanceCall)
    /\ []((eng.pc = "constructed" /\ eng.option # "false")
            => tpl.started = 1 /\ mp.started = 1)
    /\ []((eng.pc = "constructed" /\ eng.option = "false")
            => tpl.started = 0 /\ mp.started = 0 /\ NoMaintenanceCall)
    /\ [][(eng.pc = "new" /\ eng'.pc = "constructed" /\ eng'.option # "false")
            => tpl'.outcome = "pending" /\ mp'.outcome = "pending"]_vars
    /\ [][eng.pc = "constructed" => eng' = eng]_vars

\* C8 witness: the instance exists, one task has failed calls behind it and
\* the other has not finished.
C8_Witness ==
    /\ eng.pc = "constructed" /\ eng.option = "undefined"
    /\ tpl.pc = "done" /\ tpl.putResult = "failed"
    /\ mp.pc = "awaitCat"

AllTasksDone == mp.pc = "fanout" /\ \A i \in mp.indices : mp.task[i].pc = "done"

\* C9: per-index isolation.  Once cat.indices listed the indices, every
\* listed index has been fetched whatever happens to the others; whenever a
\* fetched mapping differs, putMapping is issued for that index; no failure
\* of a get or putMapping rejects a task; updateIndexMappings completes only
\* when every per-index task has, and does complete once they all have.
C9_PerIndexIsolation ==
    /\ [](mp.pc \in {"fanout", "done"} =>
            \A i \in mp.indices :
                /\ mp.task[i].gets = 1
                /\ mp.task[i].outcome # "rejected"
                /\ mp.task[i].fetched = "differ" => mp.task[i].puts = 1)
    /\ [](mp.pc = "done" => \A i \in mp.indices : mp.task[i].pc = "done")
    /\ (AllTasksDone ~> mp.pc = "done")

\* C9 witness: the get and the putMapping of one index both failed while
\* the other index was still being fetched, and later the other index was
\* updated and updateIndexMappings completed.
C9_Witness ==
    /\ mp.pc = "done"
    /\ \E i, j \in mp.indices :
        /\ i # j
        /\ mp.task[i].fetched = "failed" /\ mp.task[i].putResult = "failed"
        /\ mp.task[j].fetched = "differ" /\ mp.task[j].putResult = "ok"

\* The wall-clock reading written in an ISO string, before its offset.
WallClock(iso) == [y |-> iso.y, m |-> iso.m, d |-> iso.d, h |-> iso.h]

IsTimestampRange(clause) ==
    /\ Keys(clause) = <<"range">>
    /\ Keys(Get(clause, "range")) = <<"timestamp">>

\* C10: always-present clauses.  For every filters value the list returned
\* by buildFindManyQuery starts with term(companyId = filters.companyId),
\* then a range on timestamp carrying exactly gte and lt; when start and
\* end are given, gte and lt are the UTC ISO-8601 text of the instants they
\* name (the written time less the written offset); no later clause of the
\* list is a companyId term or a timestamp range.
C10_AlwaysPresentClauses ==
    qr.op = "buildFindManyQuery" =>
        LET must == qr.must
            bounds == Get(Get(must[2], "range"), "timestamp")
        IN  /\ Len(must) >= 2
            /\ must[1] = Term("companyId", Str(qr.filters.companyId))
            /\ IsTimestampRange(must[2])
            /\ Keys(bounds) = <<"gte", "lt">>
            /\ Get(bounds, "gte").t = "string" /\ Get(bounds, "lt").t = "string"
            /\ qr.filters.start.given =>
                  \E i \in {FromISO(qr.filters.start)} :
                      /\ Ord(i) = Ord(WallClock(qr.filters.start)) - qr.filters.start.off
                      /\ Get(bounds, "gte") = Str(ToISO(i))
            /\ qr.filters.end.given =>
                  \E i \in {FromISO(qr.filters.end)} :
                      /\ Ord(i) = Ord(WallClock(qr.filters.end)) - qr.filters.end.off
                      /\ Get(bounds, "lt") = Str(ToISO(i))
            /\ \A k \in 3..Len(must) :
                  /\ ~IsTimestampRange(must[k])
                  /\ ~(Keys(must[k]) = <<"term">>
                        /\ HasKey(Get(must[k], "term"), "companyId"))

\* C10 witness: start is written with an offset that puts its instant on
\* the previous UTC day, end is given, and two other filters added clauses.
C10_Witness ==
    /\ qr.op = "buildFindManyQuery"
    /\ qr.filters.start.given /\ qr.filters.end.given
    /\ qr.filters.start.off > 0
    /\ FromISO(qr.filters.start).d # qr.filters.start.d
    /\ Len(qr.must) >= 4

\* The index name of company cid for the calendar month m of year y under a
\* pattern: every placeholder piece replaced by its value.
MonthIndexName(pattern, cid, y, m) ==
    Concat([k \in DOMAIN pattern |->
        CASE pattern[k] = "{companyId}" -> cid
          [] pattern[k] = "{year}" -> Pad4(y)
          [] pattern[k] = "{month}" -> Pad2(m)
          [] OTHER -> pattern[k]])

\* The range of a getIndexNameRange call starts at the first instant of a
\* calendar month and ends after that instant, inside the following month.
StartsMonthEndsInNext ==
    /\ rt.op = "getIndexNameRange"
    /\ rt.start.given /\ rt.end.given
    /\ LET s == FromISO(rt.start)
           e == FromISO(rt.end)
           n == PlusMonths(s, 1)
       IN  /\ s.d = 1 /\ s.h = 0
           /\ e.y = n.y /\ e.m = n.m
           /\ Ord(n) < Ord(e)

C11_BothNamesOfSecondMonth ==
    StartsMonthEndsInNext =>
        LET e == FromISO(rt.end)
            second == MonthIndexName(rt.pattern, rt.companyId.s, e.y, e.m)
        IN  rt.joined = second \o "," \o second

\* The effective company of an action: its companyId, "" when absent.
CompanyOf(c) == IF c.some THEN c.s ELSE ""

\* C12: write index naming.  getIndexName(action) is the index pattern with
\* {companyId} replaced by the action's companyId ("" when absent), {year}
\* by the four-digit UTC year of action.timestamp and {month} by its
\* two-digit UTC month 01..12; two actions get the same index exactly when
\* they have the same company and the same UTC calendar month.
C12_WriteIndexNaming ==
    rt.op = "getIndexName" =>
        LET i == DateParse(rt.timestamp)
        IN  /\ Ord(i) = Ord(WallClock(rt.timestamp)) - rt.timestamp.off
            /\ i.m \in 1..12
            /\ rt.name = MonthIndexName(rt.pattern, CompanyOf(rt.companyId), i.y, i.m)
            /\ \A c \in {None} \cup {Some(x) : x \in CompanyIds \cup {""}},
                  ts \in ValidIsoStrings :
                  LET j == DateParse(ts)
                      other == getIndexName(rt.pattern,
                                   [companyId |-> c, timestamp |-> ts])
                  IN  (other = rt.name) <=>
                          (/\ CompanyOf(c) = CompanyOf(rt.companyId)
                           /\ j.y = i.y /\ j.m = i.m)

\* C12 witness: an action without companyId whose timestamp is written with
\* an offset in one month and names an instant of the previous UTC month.
C12_Witness ==
    /\ rt.op = "getIndexName"
    /\ ~rt.companyId.some
    /\ rt.timestamp.off > 0
    /\ DateParse(rt.timestamp).m # rt.timestamp.m
    /\ rt.name # ""

RECURSIVE BoolLists(_)
\* The bool lists of a clause tree: [kind, list] for every bool.<kind> list
\* met when descending through the lists of bools and the queries of nested
\* clauses (the values of term, terms and range are not clauses).
BoolLists(clause) ==
    IF HasKey(clause, "bool") THEN
        LET b == Get(clause, "bool")
        IN  UNION { {[kind |-> b.v[i].k, list |-> b.v[i].v.v]}
                    \cup UNION { BoolLists(b.v[i].v.v[j]) : j \in DOMAIN b.v[i].v.v }
                    : i \in DOMAIN b.v }
    ELSE IF HasKey(clause, "nested")
        THEN BoolLists(Get(Get(clause, "nested"), "query"))
    ELSE {}

\* C13: singleton collapse, first half.  For every filters value, nowhere in
\* the clause tree returned by buildFindManyQuery is there a bool.must or
\* bool.should whose list has one element or none.
C13_NoSingletonBool ==
    qr.op = "buildFindManyQuery" =>
        \A k \in DOMAIN qr.must :
            \A b \in BoolLists(qr.must[k]) :
                /\ b.kind \in {"must", "should"}
                /\ Len(b.list) >= 2

\* C13 witness: framework, action and meta are each given as one candidate
\* with one sub-field (or as a list whose other candidate is empty), and the
\* bare term or nested clause of that candidate is a clause of the result.
C13_Witness ==
    /\ qr.op = "buildFindManyQuery"
    /\ \/ /\ Get(qr.filters.rest, "framework") = Obj(<<P("name", Str("apollo"))>>)
          /\ Term("framework.name", Str("apollo")) \in Range(qr.must)
       \/ /\ Get(qr.filters.rest, "meta")
                = Arr(<< Obj(<<P("tenant", Str("t1"))>>), Obj(<<>>) >>)
          /\ \E k \in DOMAIN qr.must : HasKey(qr.must[k], "nested")
    /\ \A k \in DOMAIN qr.must : ~HasKey(qr.must[k], "bool")

RECURSIVE LeafField(_)
\* The first document field a clause names: the field of a term, terms or
\* range clause, found through the first element of a bool list and the
\* query of a nested clause.
LeafField(clause) ==
    IF clause.v[1].k = "bool"
        THEN LeafField(clause.v[1].v.v[1].v.v[1])
    ELSE IF clause.v[1].k = "nested"
        THEN LeafField(clause.v[1].v.v[2].v)
    ELSE clause.v[1].v.v[1].k

\* The filters compiled from candidate lists, and the document fields the
\* clauses of each name.
GroupFilters ==
    {"framework", "action", "agents", "targets", "request", "changes", "meta",
     "response.body", "response.headers"}

FilterFields(name) ==
    CASE name = "framework" -> {"framework.name", "framework.version"}
      [] name = "action" ->
            {"action.id", "action.type", "action.verb", "action.object.keyword"}
      [] name = "agents" ->
            {"agents.id", "agents.type", "agents.name", "agents.meta.key"}
      [] name = "targets" ->
            {"targets.id", "targets.type", "targets.name", "targets.meta.key"}
      [] name = "changes" ->
            {"changes.model", "changes.operation", "changes.id",
             "changes.path.keyword", "changes.before.keyword",
             "changes.after.keyword", "changes.meta.key"}
      [] name = "request" -> {"request.key"}
      [] name = "meta" -> {"meta.key"}
      [] name = "response" ->
            {"response.status", "response.time", "response.body.key",
             "response.headers.key"}
      [] name = "response.body" -> {"response.body.key"}
      [] name = "response.headers" -> {"response.headers.key"}

\* The value given for a filter, undefined when it is not given.
FilterValue(rest, name) ==
    IF name = "response.body" THEN Get(Get(rest, "response"), "body")
    ELSE IF name = "response.headers" THEN Get(Get(rest, "response"), "headers")
    ELSE Get(rest, name)

\* The clauses among a list that name a field of a filter.
ClausesOf(clauses, name) ==
    SelectSeq(clauses, LAMBDA c : LeafField(c) \in FilterFields(name))

\* The sub-clauses of the response clause of a result.
ResponseParts(must) ==
    LET rc == ClausesOf(must, "response")
    IN  IF rc = <<>> THEN <<>>
        ELSE IF HasKey(rc[1], "bool") /\ HasKey(Get(rc[1], "bool"), "must")
            THEN Get(Get(rc[1], "bool"), "must").v
        ELSE <<rc[1]>>

\* The clauses a result holds for a filter: for agents, targets and changes
\* what their nested wrapper holds, for response.body and response.headers
\* the sub-clause of the response clause.
GroupQueries(must, name) ==
    IF name \in {"response.body", "response.headers"}
        THEN ClausesOf(ResponseParts(must), name)
    ELSE IF name \in {"agents", "targets", "changes"}
        THEN LET cs == ClausesOf(must, name)
             IN  [k \in DOMAIN cs |-> Get(Get(cs[k], "nested"), "query")]
    ELSE ClausesOf(must, name)

\* The sub-field names of a candidate of framework, action, agents, targets
\* or changes.
SubFieldKeys(name) ==
    CASE name = "framework" -> <<"name", "version">>
      [] name = "action" -> <<"id", "type", "verb", "object">>
      [] name \in {"agents", "targets"} -> <<"id", "type", "name">>
      [] name = "changes" -> <<"model", "operation", "id", "path", "before", "after">>
      [] OTHER -> <<>>

RECURSIVE SumOver(_, _)
SumOver(f, keys) ==
    IF keys = <<>> THEN 0 ELSE f[Head(keys)] + SumOver(f, Tail(keys))

\* The number of populated sub-fields of a candidate: its non-empty fields
\* and its non-empty meta for an entity, the pairs of a request object (an
\* object-valued key counting its inner pairs), the keys of a map.
SubFields(name, candidate) ==
    IF name = "request" THEN
        LET count == [i \in DOMAIN candidate.v |->
                        IF candidate.v[i].v.t = "object"
                        THEN Len(candidate.v[i].v.v) ELSE 1]
        IN  SumOver(count, [i \in DOMAIN candidate.v |-> i])
    ELSE IF name \in {"meta", "response.body", "response.headers"}
        THEN Len(Keys(candidate))
    ELSE Cardinality({ i \in DOMAIN SubFieldKeys(name) :
                         IsTruthy(Get(candidate, SubFieldKeys(name)[i])) })
         + (IF name \in {"agents", "targets", "changes"}
               /\ Len(Keys(Get(candidate, "meta"))) > 0 THEN 1 ELSE 0)

\* The list a clause ORs: the list of a bool.should, else the clause alone.
Alternatives(q) ==
    IF HasKey(q, "bool") /\ HasKey(Get(q, "bool"), "should")
    THEN Get(Get(q, "bool"), "should").v ELSE <<q>>

\* The clause of one candidate ANDs n sub-fields: a bool.must of n clauses
\* when n >= 2, no bool when n = 1; for a map of response.body or
\* response.headers, a nested clause over a bool.must of the 2n terms.
CandidateClauseOk(name, n, clause) ==
    IF name \in {"response.body", "response.headers"} THEN
        /\ HasKey(clause, "nested")
        /\ Get(Get(clause, "nested"), "query")
              = BoolOf("must", Get(Get(Get(Get(clause, "nested"), "query"),
                                       "bool"), "must").v)
        /\ Len(Get(Get(Get(Get(clause, "nested"), "query"), "bool"), "must").v) = 2 * n
    ELSE IF n >= 2 THEN
        /\ clause = BoolOf("must", Get(Get(clause, "bool"), "must").v)
        /\ Len(Get(Get(clause, "bool"), "must").v) = n
    ELSE ~HasKey(clause, "bool")

\* The candidates of a filter, and those among them with a populated
\* sub-field.
Candidates(rest, name) ==
    IF IsTruthy(FilterValue(rest, name)) THEN AsList(FilterValue(rest, name)) ELSE <<>>

Populated(rest, name) ==
    SelectSeq(Candidates(rest, name), LAMBDA c : SubFields(name, c) > 0)

\* C14 as stated: singleton collapse, second half.  Whenever a filter
\* (framework, action, agents, targets, request, response.body,
\* response.headers, changes, meta) is given as a list of two or more
\* candidates, the clause emitted for it is a bool.should over one clause per
\* candidate, and a candidate with two or more sub-fields has a bool.must
\* over them as its clause.
C14_ListAlwaysShould ==
    qr.op = "buildFindManyQuery" =>
        \A name \in GroupFilters :
            LET cs == Candidates(qr.filters.rest, name)
                qs == GroupQueries(qr.must, name)
            IN  (IsArray(FilterValue(qr.filters.rest, name)) /\ Len(cs) >= 2) =>
                    /\ Len(qs) = 1
                    /\ qs[1] = BoolOf("should", Alternatives(qs[1]))
                    /\ Len(Alternatives(qs[1])) = Len(cs)
                    /\ \A i \in DOMAIN cs :
                          CandidateClauseOk(name, SubFields(name, cs[i]),
                                            Alternatives(qs[1])[i])

\* C14 as amended.  The candidates of a filter that have a populated
\* sub-field each yield one clause, in the order of the list: a bool.must
\* over its sub-fields when it has two or more, a bare clause when it has
\* one.  When two or more candidates yield a clause the filter's clause is a
\* bool.should over them, when one does it is that clause, when none does
\* nothing is emitted for the filter.
C14_PopulatedCandidatesShould ==
    qr.op = "buildFindManyQuery" =>
        \A name \in GroupFilters :
            LET cs == Populated(qr.filters.rest, name)
                qs == GroupQueries(qr.must, name)
            IN  IF Len(cs) = 0 THEN qs = <<>>
                ELSE /\ Len(qs) = 1
                     /\ Len(Alternatives(qs[1])) = Len(cs)
                     /\ Len(cs) >= 2 => qs[1] = BoolOf("should", Alternatives(qs[1]))
                     /\ \A i \in DOMAIN cs :
                           CandidateClauseOk(name, SubFields(name, cs[i]),
                                             Alternatives(qs[1])[i])

\* C14 witness: agents is a list of two candidates of two sub-fields each,
\* compiled to a nested clause over a bool.should of two bool.must.
C14_Witness ==
    /\ qr.op = "buildFindManyQuery"
    /\ IsArray(Get(qr.filters.rest, "agents"))
    /\ Len(Populated(qr.filters.rest, "agents")) = 2
    /\ \A i \in 1..2 : SubFields("agents", Populated(qr.filters.rest, "agents")[i]) = 2
    /\ Len(GroupQueries(qr.must, "agents")) = 1
    /\ HasKey(Get(GroupQueries(qr.must, "agents")[1], "bool"), "should")

\* The list a clause ANDs: the list of a bool.must, else the clause alone.
Conjuncts(q) ==
    IF HasKey(q, "bool") /\ HasKey(Get(q, "bool"), "must")
    THEN Get(Get(q, "bool"), "must").v ELSE <<q>>

\* One nested clause per key of a map: nested(path, bool.must[term(path.key
\* = k), term(path.value.keyword = v)]), in the order of the keys.
PerKeyNested(map, path) ==
    [j \in DOMAIN Keys(map) |->
        Nested(path, BoolOf("must",
            << Term(path \o ".key", Str(Keys(map)[j])),
               Term(path \o ".value.keyword", Get(map, Keys(map)[j])) >>))]

\* C15: entity metadata is matched per key.  For an agents, targets or
\* changes candidate whose meta has k keys, the candidate's AND list holds k
\* nested(<entity>.meta, bool.must[term(key), term(value.keyword)]) clauses,
\* one per key, after the terms of its direct fields and inside the
\* nested(<entity>) wrapper; the terms of two keys never share one nested
\* clause.
C15_EntityMetaPerKey ==
    qr.op = "buildFindManyQuery" =>
        \A name \in {"agents", "targets", "changes"} :
            LET cs == Populated(qr.filters.rest, name)
                qs == GroupQueries(qr.must, name)
            IN  Len(cs) > 0 =>
                    /\ Len(qs) = 1
                    /\ Len(Alternatives(qs[1])) = Len(cs)
                    /\ \A i \in DOMAIN cs :
                          SelectSeq(Conjuncts(Alternatives(qs[1])[i]),
                                    LAMBDA c : HasKey(c, "nested"))
                            = PerKeyNested(Get(cs[i], "meta"), name \o ".meta")

\* Singleton collapse of a non-empty list: the clause itself when there is
\* one, a bool of the kind over the list otherwise.
Collapse(kind, clauses) ==
    IF Len(clauses) = 1 THEN clauses[1] ELSE BoolOf(kind, clauses)

RECURSIVE RequestPairs(_, _)
\* The pairs one request filter object asks for, from its i-th key on:
\* [key, value] for a scalar key, [key, parent, value] for every inner pair
\* of an object-valued key, in the order of the keys.
RequestPairs(request, i) ==
    IF i > Len(request.v) THEN <<>>
    ELSE LET k == request.v[i].k
             v == request.v[i].v
         IN  (IF v.t = "object"
              THEN [j \in DOMAIN v.v |->
                      [key |-> v.v[j].k, parent |-> Some(k), value |-> v.v[j].v]]
              ELSE <<[key |-> k, parent |-> None, value |-> v]>>)
             \o RequestPairs(request, i + 1)

\* The nested clause that matches one pair of a request filter.
RequestPairClause(pair) ==
    Nested("request", BoolOf("must",
        IF pair.parent.some
        THEN << Term("request.key", Str(pair.key)),
                Term("request.parent", Str(pair.parent.s)),
                Term("request.value.keyword", pair.value) >>
        ELSE << Term("request.key", Str(pair.key)),
                Term("request.value.keyword", pair.value) >>))

\* C17: request filter.  Within one request filter object each scalar key k
\* yields nested(request, bool.must[term(request.key = k),
\* term(request.value.keyword = v)]) and each object-valued key k yields, for
\* every inner pair, nested(request, bool.must[term(request.key = innerKey),
\* term(request.parent = k), term(request.value.keyword = v)]); the clauses
\* of one object are AND'd and the objects of a list are OR'd, both with
\* singleton collapse; an object that yields no clause has no part in the OR.
C17_RequestFilter ==
    qr.op = "buildFindManyQuery" =>
        LET requests == Populated(qr.filters.rest, "request")
            results == [i \in DOMAIN requests |->
                LET pairs == RequestPairs(requests[i], 1)
                IN  Collapse("must", [j \in DOMAIN pairs |-> RequestPairClause(pairs[j])])]
        IN  IF Len(requests) = 0 THEN ClausesOf(qr.must, "request") = <<>>
            ELSE ClausesOf(qr.must, "request") = <<Collapse("should", results)>>

\* C17 witness: request is a list of two objects, the second with an
\* object-valued key of two inner pairs; the result ORs a bare nested clause
\* and a bool.must of two nested clauses that carry the parent term.
C17_Witness ==
    /\ qr.op = "buildFindManyQuery"
    /\ IsArray(Get(qr.filters.rest, "request"))
    /\ Len(ClausesOf(qr.must, "request")) = 1
    /\ LET alts == Alternatives(ClausesOf(qr.must, "request")[1])
       IN  /\ Len(alts) = 2
           /\ HasKey(alts[1], "nested")
           /\ Len(Conjuncts(alts[2])) = 2
           /\ \A j \in 1..2 :
                 Len(Conjuncts(Get(Get(Conjuncts(alts[2])[j], "nested"), "query"))) = 3

\* One nested clause for a whole map: nested(path, bool.must[...]) over the
\* key term and the value term of every key, in the order of the keys.
SharedNested(map, path) ==
    LET keys == Keys(map)
    IN  Nested(path, BoolOf("must",
            [j \in 1..(2 * Len(keys)) |->
                IF j % 2 = 1
                THEN Term(path \o ".key", Str(keys[(j + 1) \div 2]))
                ELSE Term(path \o ".value.keyword", Get(map, keys[j \div 2]))]))

\* The sub-clause of response.body or response.headers: the maps that have
\* a key, each as one shared nested clause, OR'd with singleton collapse.
ResponseMapPart(rest, name) ==
    LET maps == Populated(rest, name)
    IN  IF Len(maps) = 0 THEN <<>>
        ELSE <<Collapse("should", [i \in DOMAIN maps |-> SharedNested(maps[i], name)])>>

\* C18: response filter.  status compiles to term (scalar) or terms (array)
\* on response.status; time.gte / time.lt compile to one range on
\* response.time (a bound that is absent or 0 is left out); for body and for headers all key and value terms of one
\* map go into a single shared nested(path, bool.must[...]) clause and
\* several maps are OR'd; the resulting sub-clauses are AND'd, in this
\* order, into one bool.must, or emitted bare when there is exactly one.
C18_ResponseFilter ==
    qr.op = "buildFindManyQuery" =>
        LET response == Get(qr.filters.rest, "response")
            status == Get(response, "status")
            time == Get(response, "time")
            statusPart ==
                IF ~IsTruthy(status) THEN <<>>
                ELSE IF IsArray(status) THEN <<Terms("response.status", status)>>
                ELSE <<Term("response.status", status)>>
            bounds ==
                SelectSeq(<<P("gte", Get(time, "gte")), P("lt", Get(time, "lt"))>>,
                          LAMBDA b : IsTruthy(b.v))
            timePart ==
                IF bounds = <<>> THEN <<>>
                ELSE <<Obj(<<P("range", Obj(<<P("response.time", Obj(bounds))>>))>>)>>
            parts == statusPart \o timePart
                        \o ResponseMapPart(qr.filters.rest, "response.body")
                        \o ResponseMapPart(qr.filters.rest, "response.headers")
        IN  IF ~IsTruthy(response) \/ parts = <<>>
            THEN ClausesOf(qr.must, "response") = <<>>
            ELSE ClausesOf(qr.must, "response") = <<Collapse("must", parts)>>

\* C18 witness: response has a body of two maps, the second of two keys,
\* and headers of one map of two keys: the result ANDs a bool.should, whose
\* second element is a shared nested clause of four terms, with a shared
\* nested clause of four terms.
C18_Witness ==
    /\ qr.op = "buildFindManyQuery"
    /\ Len(Populated(qr.filters.rest, "response.body")) = 2
    /\ Len(ResponseParts(qr.must)) = 2
    /\ LET body == ResponseParts(qr.must)[1]
           headers == ResponseParts(qr.must)[2]
       IN  /\ Len(Alternatives(body)) = 2
           /\ Len(Conjuncts(Get(Get(Alternatives(body)[2], "nested"), "query"))) = 4
           /\ Get(Get(headers, "nested"), "path") = Str("response.headers")
           /\ Len(Conjuncts(Get(Get(headers, "nested"), "query"))) = 4

\* A clause is the free-text clause of a string: a bool.should that holds a
\* term of the string on each of id, app, environment, framework.name,
\* sessionId, traceIds, action.id, action.object.keyword and a nested clause
\* on each of agents, targets, request, response.body, response.headers,
\* changes and meta.
IsFreeTextClause(clause, text) ==
    /\ HasKey(clause, "bool")
    /\ HasKey(Get(clause, "bool"), "should")
    /\ LET should == Get(Get(clause, "bool"), "should").v
       IN  /\ \A field \in {"id", "app", "environment", "framework.name",
                            "sessionId", "traceIds", "action.id",
                            "action.object.keyword"} :
                 Term(field, Str(text)) \in Range(should)
           /\ \A path \in {"agents", "targets", "request", "response.body",
                           "response.headers", "changes", "meta"} :
                 \E i \in DOMAIN should :
                     /\ HasKey(should[i], "nested")
                     /\ Get(Get(should[i], "nested"), "path") = Str(path)

\* C19: free-text query.  When filters.query is a non-empty string the last
\* clause buildFindManyQuery returns is one bool.should that ORs term checks
\* of that string against id, app, environment, framework.name, sessionId,
\* traceIds, action.id, action.object.keyword and nested checks against
\* agents, targets, request, response.body, response.headers, changes and
\* meta; when filters.query is absent no clause of the result is such a
\* bool.should.
C19_FreeTextQuery ==
    qr.op = "buildFindManyQuery" =>
        LET query == Get(qr.filters.rest, "query")
        IN  IF query.t = "string" /\ query.v # ""
            THEN IsFreeTextClause(qr.must[Len(qr.must)], query.v)
            ELSE \A k \in DOMAIN qr.must :
                    ~(/\ HasKey(qr.must[k], "bool")
                      /\ HasKey(Get(qr.must[k], "bool"), "should")
                      /\ \E i \in DOMAIN Get(Get(qr.must[k], "bool"), "should").v :
                            LeafField(Get(Get(qr.must[k], "bool"), "should").v[i]) = "id")

\* C20: single 'now' per call.  With explicit start and end the clause list
\* is the same whatever the clock reads during the call; with start and end
\* both omitted, for every advance of the clock during the call, the range
\* clause has gte = lt minus exactly defaultStartMonthsAgo months: both
\* bounds come from one reading of the clock.
C20_SingleNow ==
    qr.op = "buildFindManyQuery" =>
        LET bounds == Get(Get(qr.must[2], "range"), "timestamp")
        IN  /\ (qr.filters.start.given /\ qr.filters.end.given) =>
                  \A p \in ClockPairs :
                      buildFindManyQuery(qr.filters, DefaultStartMonthsAgo, p[1], p[2])
                          = qr.must
            /\ (~qr.filters.start.given /\ ~qr.filters.end.given) =>
                  \E now \in ClockReadings :
                      /\ Get(bounds, "lt") = Str(ToISO(now))
                      /\ Get(bounds, "gte")
                            = Str(ToISO(PlusMonths(now, 0 - DefaultStartMonthsAgo)))



\* The metadata maps of an Action, each with the list the document holds in
\* its place.
MapsOf(a, doc, field) ==
    LET x == Get(a, field)
    IN  IF x.t # "array" THEN {}
        ELSE { <<Get(x.v[i], "meta"), Get(Get(doc, field).v[i], "meta")>>
               : i \in DOMAIN x.v }

StoredMaps(a, doc) ==
    { <<Get(a, "meta"), Get(doc, "meta")>>,
      <<Get(Get(a, "cost"), "meta"), Get(Get(doc, "cost"), "meta")>>,
      <<Get(Get(a, "response"), "body"), Get(Get(doc, "response"), "body")>>,
      <<Get(Get(a, "response"), "headers"), Get(Get(doc, "response"), "headers")>> }
    \cup MapsOf(a, doc, "agents") \cup MapsOf(a, doc, "targets")
    \cup MapsOf(a, doc, "changes")

\* The list holds one entry per key of the map, in order, each value a
\* string: the leaf itself if a string, its JSON text if any other value.
StoredAsStrings(map, list) ==
    map.t = "object" =>
        /\ list.t = "array" /\ Len(list.v) = Len(map.v)
        /\ \A i \in DOMAIN map.v :
              LET leaf == map.v[i].v
                  value == Get(list.v[i], "value")
              IN  /\ Get(list.v[i], "key") = Str(map.v[i].k)
                  /\ value.t = "string"
                  /\ leaf.t = "string" => value = leaf
                  /\ leaf.t \notin {"string", "undefined"} => value = Str(JsonText(leaf))

\* C21: stored values are strings.  In the document serialize makes of an
\* Action, every value of every {key, value} entry (meta, agents.meta,
\* targets.meta, changes.meta, cost.meta, response.body, response.headers,
\* request) is a string: a string leaf verbatim, any other leaf (number,
\* boolean, null, undefined, object, array) as a JSON string.
C21_StoredValuesAreStrings ==
    cd.pc = "serialized" =>
        /\ \A pair \in StoredMaps(cd.action, cd.doc) :
              StoredAsStrings(pair[1], pair[2])
        /\ Get(cd.doc, "request").t = "array" =>
              \A i \in DOMAIN Get(cd.doc, "request").v :
                  Get(Get(cd.doc, "request").v[i], "value").t = "string"

\* The entries the nested object under request key k is to give: one per
\* child whose value is defined, the child itself if a string, the JSON
\* text of the child alone otherwise.
NestedEntries(k, value) ==
    LET defined == SelectSeq(Entries(value), LAMBDA p : p.v.t # "undefined")
    IN  [i \in DOMAIN defined |->
            Obj(<<P("key", Str(defined[i].k)), P("parent", Str(k)),
                  P("value", IF defined[i].v.t = "string" THEN defined[i].v
                             ELSE Str(JsonText(defined[i].v)))>>)]

\* C22: request flattening of nested leaves.  For every request key k whose
\* value is a plain object, the entries of the document with parent k are
\* one per child whose value is defined, in input order, the value being
\* the child itself if a string and otherwise the JSON text of that child
\* alone; a child whose value is undefined gives no entry.
C22_NestedLeafFlattening ==
    (cd.pc = "serialized" /\ Get(cd.action, "request").t = "object") =>
        \A i \in DOMAIN Get(cd.action, "request").v :
            LET p == Get(cd.action, "request").v[i]
            IN  p.v.t = "object" =>
                    SelectSeq(Get(cd.doc, "request").v,
                              LAMBDA e : Get(e, "parent") = Str(p.k))
                        = NestedEntries(p.k, p.v)


RECURSIVE Unfold(_, _, _)
\* The value at v of graph g written out as a tree, every reference to the
\* node itself or to a node above it left out; each copy marked with its
\* node.
Unfold(g, v, above) ==
    IF ~IsRef(v) THEN v
    ELSE LET here == above \cup {v.v}
             kept == SelectSeq(g[v.v].slots,
                               LAMBDA p : ~(IsRef(p.v) /\ p.v.v \in here))
         IN  IF g[v.v].kind = "array"
             THEN CopyOf(Arr([i \in DOMAIN kept |-> Unfold(g, kept[i].v, here)]), v.v)
             ELSE CopyOf(Obj([i \in DOMAIN kept |->
                                P(kept[i].k, Unfold(g, kept[i].v, here))]), v.v)

RECURSIVE RefersAbove(_, _, _)
\* Some value at or under v refers to itself or to a node above it.
RefersAbove(g, v, above) ==
    /\ IsRef(v)
    /\ \/ v.v \in above
       \/ \E i \in DOMAIN g[v.v].slots :
             RefersAbove(g, g[v.v].slots[i].v, above \cup {v.v})

AllObjects(g) == \A n \in DOMAIN g : g[n].kind = "object"

\* C23: cycle safety.  For a graph of objects (o.self = o, o.child.self = o
\* and every other cycle through object keys) breakCircularReferences
\* returns the structure with exactly the keys that hold the object itself
\* or an ancestor left out, every other key at every depth with its value;
\* for a structure with no reference to an ancestor, arrays included, the
\* result is structurally equal to the input.
C23_CycleSafety ==
    (/\ cd.pc = "normalized"
     /\ AllObjects(cd.graph) \/ ~RefersAbove(cd.graph, Ref(1), {}))
    => cd.result = Unfold(cd.graph, Ref(1), {})

\* C23 witness: o.child.self = o was normalized, and the result is o with
\* child, child without self.
C23_Witness ==
    /\ cd.pc = "normalized"
    /\ cd.graph = ChainGraph(2, <<"object", "object">>, <<0, 1>>)
    /\ cd.result = CopyOf(Obj(<<P("p", Num(1)),
                                P("next", CopyOf(Obj(<<P("p", Num(2))>>), 2))>>), 1)

RECURSIVE NoAncestorElement(_, _)
\* No array at or under x holds a copy of the node x copies or of a node
\* above it.
NoAncestorElement(x, above) ==
    x.t \in {"object", "array"} =>
        \A i \in DOMAIN x.v :
            LET child == IF x.t = "array" THEN x.v[i] ELSE x.v[i].v
            IN  /\ (x.t = "array" /\ child.t \in {"object", "array"})
                      => child.of \notin above \cup {x.of}
                /\ NoAncestorElement(child, above \cup {x.of})

\* C28: normalizer termination.  breakCircularReferences returns on every
\* finite graph, cycles through arrays included (an array that contains
\* itself, an object reachable again through an array inside an array),
\* and no array of the result holds a copy of one of its ancestors.
C28_NormalizerTerminates ==
    cd.pc = "normalized" =>
        /\ cd.result # RangeError
        /\ NoAncestorElement(cd.result, {})

RECURSIVE StructurallyEqual(_, _)
\* Structural equality: primitives by value, arrays of one length index by
\* index, objects with the same keys key by key.
StructurallyEqual(a, b) ==
    IF a.t # b.t THEN FALSE
    ELSE IF a.t = "array"
        THEN /\ Len(a.v) = Len(b.v)
             /\ \A i \in DOMAIN a.v : StructurallyEqual(a.v[i], b.v[i])
    ELSE IF a.t = "object"
        THEN /\ Range(Keys(a)) = Range(Keys(b))
             /\ \A k \in Range(Keys(a)) : StructurallyEqual(Get(a, k), Get(b, k))
    ELSE a = b

\* C27: structural equality.  deepCompareObjects(a, b) is true exactly when
\* a and b are structurally equal (a key on one side only makes it false,
\* whatever its value), and it answers (b, a) as it answers (a, b).
C27_StructuralEquality ==
    cd.pc = "compared" =>
        /\ cd.result = "true" <=> StructurallyEqual(cd.a, cd.b)
        /\ cd.result # "true" => cd.result = "false"
        /\ deepCompare3(cd.b, cd.a) = cd.result


\* C24: pagination and sort of findMany.  The search body has size =
\* options.limit, or 25 when limit is absent, from = (page - 1) * size with
\* page 1 when absent, from never negative, and one sort on options.sortBy
\* ("timestamp" when absent) with order options.sortDirection ("desc" when
\* absent).
C24_PageWindow ==
    (fc.op = "findMany" /\ fc.request # NoRequest) =>
        LET options == fc.input[1]
            size == IF options.limit.t = "undefined" THEN 25 ELSE options.limit.v
            page == IF options.page.t = "undefined" THEN 1 ELSE options.page.v
        IN  /\ fc.request.size = size
            /\ fc.request.from = (page - 1) * size
            /\ fc.request.from >= 0
            /\ fc.request.sortBy =
                  (IF options.sortBy.some THEN options.sortBy.s ELSE "timestamp")
            /\ fc.request.order =
                  (IF options.sortDirection.some THEN options.sortDirection.s ELSE "desc")


\* The filters in the order the compiler takes them, and the document
\* fields the clauses of each name.
FilterOrder ==
    <<"companyId", "timestamp", "id", "clientId", "app", "environment",
      "sessionId", "traceIds", "framework", "action", "agents", "targets",
      "request", "response", "changes", "meta">>

ScalarSetFields == {"id", "clientId", "app", "environment", "sessionId", "traceIds"}

ClauseRank(clause) ==
    LET field == LeafField(clause)
    IN  CHOOSE r \in DOMAIN FilterOrder :
            field \in (IF FilterOrder[r] \in GroupFilters \cup {"response"}
                       THEN FilterFields(FilterOrder[r])
                       ELSE {FilterOrder[r]})

\* The place of a term of an agents or targets candidate in the fixed order
\* id, type, name, meta.
TermRank(name, clause) ==
    LET field == LeafField(clause)
    IN  CHOOSE r \in 1..4 :
            field = name \o <<".id", ".type", ".name", ".meta.key">>[r]

\* The clauses are in the compiler's order, and the terms of every agents
\* or targets candidate in the order id, type, name.
InFixedOrder(must) ==
    LET ranks == [k \in DOMAIN must |-> ClauseRank(must[k])]
    IN  /\ \A k \in 1..(Len(must) - 1) : ranks[k] <= ranks[k + 1]
        /\ \A name \in {"agents", "targets"} :
              HasKey(qr.filters.rest, name) =>
                \A q \in Range(GroupQueries(must, name)) :
                    \A alt \in Range(Alternatives(q)) :
                        LET terms == Conjuncts(alt)
                            at == [j \in DOMAIN terms |-> TermRank(name, terms[j])]
                        IN  \A j \in 1..(Len(terms) - 1) : at[j] < at[j + 1]

IsGenerated(id) == \E n \in 1..(MaxBatch + 1) : id = Some(Uuid(n))

\* body is what create makes of action: the id of action when it has one
\* (an empty string is none), a generated id otherwise, every other field
\* as in action.
CreatedFrom(action, body) ==
    /\ Truthy(action.id) => body.id = action.id
    /\ ~Truthy(action.id) => IsGenerated(body.id)
    /\ [body EXCEPT !.id = action.id] = action

C29_NoBlindMappingUpdate ==
    \A i \in IndexUniverse :
        /\ mp.task[i].puts > 0 => mp.task[i].fetched \in {"differ", "absent"}
        /\ mp.task[i].fetched = "failed" => mp.task[i].puts = 0


\* C30: createMany reports success only for a fully written batch.
\* createMany resolves with the list of actions only if the backend indexed
\* every item of the bulk request: when the bulk call completes and reports
\* a failure for some item, createMany does not resolve.
C30_BulkFullyWritten ==
    (fc.op = "createMany" /\ fc.pc = "resolved") => fc.failed = {}

====
